---- MODULE Spec2Model ----
(***************************************************************************)
(* Trip combination optimizers of the flight-search tool.                  *)
(*                                                                         *)
(* Four optimizers exist in the repository:                                *)
(*   - src/trip_finder.py                      TripOptimizer (4 legs)      *)
(*   - src/trip_finder/trip_finder.py          TripOptimizer (2 or 3 legs) *)
(*   - src/trip_finder_roundtrip.py            RoundTripOptimizer (2 pairs)*)
(*   - src/trip_finder/trip_finder_roundtrip.py RoundTripOptimizer (1 or 2)*)
(* An optimizer is constructed with two thresholds and then answers calls  *)
(* of validate_dates and find_best_combinations.  One call is one action.  *)
(* Each optimizer has a command-line driver that retrieves the candidate   *)
(* lists, runs the search, displays the result and writes it to a file.    *)
(*                                                                         *)
(* A date string "YYYY-MM-DD" is the tuple <<Y, M, D>>; strptime turns it  *)
(* into a day ordinal, on which the code compares and subtracts.  Python's *)
(* None is the empty tuple.  Prices are whole currency units.              *)
(***************************************************************************)
EXTENDS Integers, Sequences, FiniteSets, TLC

\* ------------------------------------------------------------------ bounds
MaxThreshold == 1   \* thresholds given at construction range over 0..MaxThreshold
NumDays      == 6   \* date strings handed to validate_dates: NumDays consecutive days
MaxFlights   == 4   \* Flight records supplied to one segment-chain search (all lists together)
MaxRoundTrips == 3  \* RoundTripFlight records supplied to one round-trip search
MaxTopN      == 2   \* top_n ranges over -1..MaxTopN

\* Thresholds of an optimizer constructed without arguments.
DefaultMinStopover1Days == 4
DefaultMinStopover2Days == 10

None == <<>>

\* The calendar window: 2026-02-26 .. 2026-02-28, 2026-03-01 .. (a month boundary).
DateOfDay(k) == IF k <= 3 THEN <<2026, 2, 25 + k>> ELSE <<2026, 3, k - 3>>

DateStrs == { DateOfDay(k) : k \in 1..NumDays }

Thresholds == 0..MaxThreshold

TopNs == (-1)..MaxTopN

\* ------------------------------------------------- datetime.strptime / days
\* "2026-02-30": a string of the right shape that names no calendar day.
BadDateStr == <<2026, 2, 30>>

IsLeap(y) == (y % 4 = 0) /\ ((y % 100 # 0) \/ (y % 400 = 0))

DaysInMonth(y, m) ==
    IF m = 2 THEN (IF IsLeap(y) THEN 29 ELSE 28)
    ELSE IF m \in {4, 6, 9, 11} THEN 30 ELSE 31

RECURSIVE DaysBeforeMonth(_, _)
DaysBeforeMonth(y, m) ==
    IF m <= 1 THEN 0 ELSE DaysBeforeMonth(y, m - 1) + DaysInMonth(y, m - 1)

DaysBeforeYear(y) ==
    LET p == y - 1 IN p * 365 + (p \div 4) - (p \div 100) + (p \div 400)

\* datetime.strptime(s, "%Y-%m-%d") of a well-formed date string, as the
\* proleptic Gregorian ordinal of the resulting midnight datetime.
strptime(s) == DaysBeforeYear(s[1]) + DaysBeforeMonth(s[1], s[2]) + s[3]

\* (a - b).days for two datetimes at midnight
days(a, b) == a - b

\* ------------------------------------------------------------------- state
VARIABLES
    min_stopover1_days,  \* optimizer field, set by __init__
    min_stopover2_days,  \* optimizer field, set by __init__
    pc,                  \* "idle": no call in progress; "returned": a call has returned
    op,                  \* the method that was called last
    seg_dates,           \* arguments of the last segment-chain validate_dates call
    rt_pair,             \* arguments <<rt1, rt2>> of the last round-trip validate_dates call
    segs,                \* arguments <<seg1, seg2, seg3, seg4>> of the last segment-chain search
    rts,                 \* arguments <<rt1_flights, rt2_flights>> of the last round-trip search
    top_n,               \* argument top_n of the last search
    valid,               \* value returned by the last validate_dates call
    valid_combos,        \* list returned by the last find_best_combinations call
    raised,              \* exception the last call ended in, "none" if it returned a value
    lists_after,         \* the argument objects of the last call as the call left them
    run,                 \* the run of a command-line driver: which one and how far it got
    browser,             \* scraper field self.browser: "none", "launched" or "closed"
    open_pages,          \* number of pages of the browser that are open
    search,              \* the search_flights / search_roundtrip call in progress or just over
    caller,              \* the loop that issues searches and collects what they return
    history              \* the calls of pure functions made so far, with what they returned

vars == <<min_stopover1_days, min_stopover2_days, pc, op, seg_dates, rt_pair,
          segs, rts, top_n, valid, valid_combos, raised, lists_after, run,
          browser, open_pages, search, caller, history>>

\* The state of the scraper and of the retrieval loop around it.
retrieval == <<browser, open_pages, search, caller>>

config == <<min_stopover1_days, min_stopover2_days>>

\* ------------------------------------------------------------ Stay Validator
\* As legacy_validate_dates, with a stay of exactly the threshold rejected.
legacy_validate_dates_exclusive(m1, m2, seg1_date, seg2_date, seg3_date, seg4_date) ==
    LET date1 == strptime(seg1_date)
        date2 == strptime(seg2_date)
        date3 == strptime(seg3_date)
        date4 == strptime(seg4_date)
    IN  IF ~(date1 < date2 /\ date2 < date3 /\ date3 < date4) THEN FALSE
        ELSE IF days(date2, date1) <= m1 THEN FALSE
        ELSE IF days(date3, date2) <= m2 THEN FALSE
        ELSE TRUE

\* src/trip_finder.py: all four dates are parsed and compared.
legacy_validate_dates(m1, m2, seg1_date, seg2_date, seg3_date, seg4_date) ==
    LET date1 == strptime(seg1_date)
        date2 == strptime(seg2_date)
        date3 == strptime(seg3_date)
        date4 == strptime(seg4_date)
    IN  IF ~(date1 < date2 /\ date2 < date3 /\ date3 < date4) THEN FALSE
        ELSE IF days(date2, date1) < m1 THEN FALSE
        ELSE IF days(date3, date2) < m2 THEN FALSE
        ELSE TRUE

\* As validate_dates, with the thresholds read as the longest stays allowed.
validate_dates_longest_stay(m1, m2, seg1_date, seg2_date, seg3_date, seg4_date) ==
    LET date1 == strptime(seg1_date)
        date2 == strptime(seg2_date)
    IN  IF seg3_date = None
        THEN IF ~(date1 < date2) THEN FALSE
             ELSE IF days(date2, date1) > m1 THEN FALSE
             ELSE TRUE
        ELSE LET date3 == strptime(seg3_date)
             IN  IF ~(date1 < date2 /\ date2 < date3) THEN FALSE
                 ELSE IF days(date2, date1) > m1 THEN FALSE
                 ELSE IF days(date3, date2) > m2 THEN FALSE
                 ELSE TRUE

\* src/trip_finder/trip_finder.py: seg4_date is accepted and never read.
validate_dates(m1, m2, seg1_date, seg2_date, seg3_date, seg4_date) ==
    LET date1 == strptime(seg1_date)
        date2 == strptime(seg2_date)
    IN  IF seg3_date = None
        THEN IF ~(date1 < date2) THEN FALSE
             ELSE IF days(date2, date1) < m1 THEN FALSE
             ELSE TRUE
        ELSE LET date3 == strptime(seg3_date)
             IN  IF ~(date1 < date2 /\ date2 < date3) THEN FALSE
                 ELSE IF days(date2, date1) < m1 THEN FALSE
                 ELSE IF days(date3, date2) < m2 THEN FALSE
                 ELSE TRUE

\* src/trip_finder_roundtrip.py: rt2 is always a record.
legacy_rt_validate_dates(m1, m2, rt1, rt2) ==
    LET rt1_outbound == strptime(rt1.outbound_date)
        rt1_return   == strptime(rt1.return_date)
        rt2_outbound == strptime(rt2.outbound_date)
        rt2_return   == strptime(rt2.return_date)
    IN  IF ~(rt1_outbound < rt2_outbound /\ rt2_outbound < rt2_return
             /\ rt2_return < rt1_return) THEN FALSE
        ELSE IF days(rt2_outbound, rt1_outbound) < m1 THEN FALSE
        ELSE IF days(rt2_return, rt2_outbound) < m2 THEN FALSE
        ELSE TRUE

\* rt_validate_dates with the stopover-2 stay compared by <= instead of <.
rt_validate_dates_exclusive(m1, m2, rt1, rt2) ==
    LET rt1_outbound == strptime(rt1.outbound_date)
        rt1_return   == strptime(rt1.return_date)
    IN  IF rt2 = None
        THEN rt1_outbound < rt1_return
        ELSE LET rt2_outbound == strptime(rt2.outbound_date)
                 rt2_return   == strptime(rt2.return_date)
             IN  IF ~(rt1_outbound < rt2_outbound /\ rt2_outbound < rt2_return
                      /\ rt2_return < rt1_return) THEN FALSE
                 ELSE IF days(rt2_outbound, rt1_outbound) < m1 THEN FALSE
                 ELSE IF days(rt2_return, rt2_outbound) <= m2 THEN FALSE
                 ELSE TRUE

\* rt_validate_dates with the stopover-1 minimum enforced on a single round trip.
rt_validate_dates_single_min(m1, m2, rt1, rt2) ==
    LET rt1_outbound == strptime(rt1.outbound_date)
        rt1_return   == strptime(rt1.return_date)
    IN  IF rt2 = None
        THEN rt1_outbound < rt1_return /\ days(rt1_return, rt1_outbound) >= m1
        ELSE LET rt2_outbound == strptime(rt2.outbound_date)
                 rt2_return   == strptime(rt2.return_date)
             IN  IF ~(rt1_outbound < rt2_outbound /\ rt2_outbound < rt2_return
                      /\ rt2_return < rt1_return) THEN FALSE
                 ELSE IF days(rt2_outbound, rt1_outbound) < m1 THEN FALSE
                 ELSE IF days(rt2_return, rt2_outbound) < m2 THEN FALSE
                 ELSE TRUE

\* src/trip_finder/trip_finder_roundtrip.py: rt2 may be None.
rt_validate_dates(m1, m2, rt1, rt2) ==
    LET rt1_outbound == strptime(rt1.outbound_date)
        rt1_return   == strptime(rt1.return_date)
    IN  IF rt2 = None
        THEN rt1_outbound < rt1_return
        ELSE LET rt2_outbound == strptime(rt2.outbound_date)
                 rt2_return   == strptime(rt2.return_date)
             IN  IF ~(rt1_outbound < rt2_outbound /\ rt2_outbound < rt2_return
                      /\ rt2_return < rt1_return) THEN FALSE
                 ELSE IF days(rt2_outbound, rt1_outbound) < m1 THEN FALSE
                 ELSE IF days(rt2_return, rt2_outbound) < m2 THEN FALSE
                 ELSE TRUE

\* ------------------------------------------------------------ ValueError
\* strptime(s, "%Y-%m-%d") raises ValueError unless s names a calendar day.
IsDate(s) == s[2] \in 1..12 /\ s[3] \in 1..DaysInMonth(s[1], s[2])

\* Each validate_dates parses its dates before it compares any of them; the
\* call ends in the ValueError of the first date that does not parse.
legacy_validate_dates_raises(seg1_date, seg2_date, seg3_date, seg4_date) ==
    ~IsDate(seg1_date) \/ ~IsDate(seg2_date) \/ ~IsDate(seg3_date) \/ ~IsDate(seg4_date)

\* seg4_date is never parsed; seg3_date is parsed unless it is None.
validate_dates_raises(seg1_date, seg2_date, seg3_date, seg4_date) ==
    ~IsDate(seg1_date) \/ ~IsDate(seg2_date) \/ (seg3_date # None /\ ~IsDate(seg3_date))

legacy_rt_validate_dates_raises(rt1, rt2) ==
    \/ ~IsDate(rt1.outbound_date) \/ ~IsDate(rt1.return_date)
    \/ ~IsDate(rt2.outbound_date) \/ ~IsDate(rt2.return_date)

rt_validate_dates_raises(rt1, rt2) ==
    \/ ~IsDate(rt1.outbound_date) \/ ~IsDate(rt1.return_date)
    \/ (rt2 # None /\ (~IsDate(rt2.outbound_date) \/ ~IsDate(rt2.return_date)))

\* -------------------------------------------------------- candidate records
\* Flight: the fields the optimizer reads (departure_date, price).
Flight(day, price) == [departure_date |-> DateOfDay(day), price |-> price]

\* RoundTripFlight: the fields the optimizer reads.
RoundTripFlight(out, ret, price) ==
    [outbound_date |-> DateOfDay(out), return_date |-> DateOfDay(ret), total_price |-> price]

\* Candidates retrieved for each leg; prices follow the unit tests' fixtures.
\* The third seg2 candidate leaves before every seg1 candidate arrives.
SegPool(i) ==
    CASE i = 1 -> {Flight(1, 500), Flight(2, 450)}
      [] i = 2 -> {Flight(2, 100), Flight(3, 150), Flight(1, 90)}
      [] i = 3 -> {Flight(3, 120), Flight(5, 70)}
      [] i = 4 -> {Flight(5, 480), Flight(6, 430)}

\* Candidates retrieved for each round trip; the third rt1 candidate returns on
\* the day it leaves and the fourth returns before it leaves.
RtPool(i) ==
    CASE i = 1 -> {RoundTripFlight(1, 6, 1000), RoundTripFlight(2, 5, 950),
                   RoundTripFlight(3, 3, 900), RoundTripFlight(5, 2, 850)}
      [] i = 2 -> {RoundTripFlight(2, 4, 200), RoundTripFlight(3, 5, 180),
                   RoundTripFlight(3, 4, 250)}

\* Every round-trip record over the calendar window (validate_dates arguments).
RoundTrips == { [outbound_date |-> o, return_date |-> r, total_price |-> 1000] :
                o \in DateStrs, r \in DateStrs }

\* Lists of at most n records of S.
ListsUpTo(S, n) == UNION { [1..k -> S] : k \in 0..n }

\* Records whose date string does not parse.
MalformedFlight == [departure_date |-> BadDateStr, price |-> 60]

MalformedRoundTrips ==
    { [outbound_date |-> BadDateStr, return_date |-> DateOfDay(6), total_price |-> 700],
      [outbound_date |-> DateOfDay(1), return_date |-> BadDateStr, total_price |-> 700] }

\* One well-formed candidate per leg (pair); together they form a valid trip
\* for thresholds up to 1.
GoodFlight(i) ==
    CASE i = 1 -> Flight(1, 500) [] i = 2 -> Flight(2, 100)
      [] i = 3 -> Flight(3, 120) [] i = 4 -> Flight(5, 480)

GoodRoundTrip(i) ==
    CASE i = 1 -> RoundTripFlight(1, 6, 1000) [] i = 2 -> RoundTripFlight(2, 4, 200)

\* Argument lists of a search in which exactly one record is malformed: that
\* record alone, after or before a well-formed one; the other lists hold
\* zero, one or two well-formed records.
SegArgsWithMalformed ==
    UNION { { [j \in 1..4 |-> IF j = i THEN bad
                                 ELSE [k \in 1..clean[j] |-> GoodFlight(j)]] :
                bad \in { <<MalformedFlight>>, <<GoodFlight(i), MalformedFlight>>,
                          <<MalformedFlight, GoodFlight(i)>> },
                clean \in [1..4 -> 0..2] } : i \in 1..4 }

RtArgsWithMalformed ==
    UNION { UNION { { [j \in 1..2 |-> IF j = i THEN bad
                                 ELSE [k \in 1..clean[j] |-> GoodRoundTrip(j)]] :
                bad \in { <<b>>, <<GoodRoundTrip(i), b>>, <<b, GoodRoundTrip(i)>> },
                clean \in [1..2 -> 0..2] } : b \in MalformedRoundTrips } : i \in 1..2 }

\* ------------------------------------------------------- Combination Search
Range(f) == { f[i] : i \in DOMAIN f }

\* itertools.product(*lists): the first list's index varies slowest.
RECURSIVE product(_)
product(lists) ==
    IF lists = <<>> THEN << <<>> >>
    ELSE LET h    == Head(lists)
             rest == product(Tail(lists))
             n    == Len(rest)
         IN  [i \in 1..(Len(h) * n) |->
                 <<h[((i - 1) \div n) + 1]>> \o rest[((i - 1) % n) + 1]]

\* An insertion that puts x before the entries of equal key: the sort is then
\* ascending but reverses ties.
InsertByKey_before_equal(sorted, x, k) ==
    LET j == Cardinality({i \in 1..Len(sorted) : sorted[i][k] < x[k]})
    IN  SubSeq(sorted, 1, j) \o <<x>> \o SubSeq(sorted, j + 1, Len(sorted))

\* list.sort(key=lambda x: x[k]): ascending and stable.
InsertByKey(sorted, x, k) ==
    LET j == Cardinality({i \in 1..Len(sorted) : sorted[i][k] <= x[k]})
    IN  SubSeq(sorted, 1, j) \o <<x>> \o SubSeq(sorted, j + 1, Len(sorted))

\* list.sort left out: the list stays in enumeration order.
sort_omitted(list, k) == list

RECURSIVE sort(_, _)
sort(list, k) ==
    IF list = <<>> THEN <<>>
    ELSE InsertByKey(sort(SubSeq(list, 1, Len(list) - 1), k), list[Len(list)], k)

\* A truncation that keeps the end of the list: list[-n:] for n > 0.
slice_keeping_last(list, n) ==
    IF n <= 0 THEN <<>>
    ELSE SubSeq(list, IF n < Len(list) THEN Len(list) - n + 1 ELSE 1, Len(list))

\* A truncation that returns nothing for every n <= 0.
slice_nonpositive_empty(list, n) ==
    SubSeq(list, 1, IF n <= 0 THEN 0 ELSE IF n < Len(list) THEN n ELSE Len(list))

\* list[:n], negative n counting from the end.
slice(list, n) ==
    LET stop == IF n >= 0 THEN (IF n < Len(list) THEN n ELSE Len(list))
                ELSE (IF Len(list) + n > 0 THEN Len(list) + n ELSE 0)
    IN  SubSeq(list, 1, stop)

\* A search that returns valid_combos in the order they were collected.
sort_in_place_omitted(objs, target, k) == objs

\* The list objects a search works on are its argument lists and, last, the
\* list valid_combos it builds.  A search that also sorted its argument lists by
\* price would leave them reordered.
sort_in_place_all(objs, target, k) ==
    [i \in 1..Len(objs) |->
        IF i = target THEN sort(objs[i], k)
        ELSE IF objs[i] = <<>> THEN <<>>
        ELSE IF "price" \in DOMAIN objs[i][1] THEN sort(objs[i], "price")
        ELSE sort(objs[i], "total_price")]

\* valid_combos.sort(key=lambda x: x[k]) sorts the object valid_combos in
\* place; no other object is written.
sort_in_place(objs, target, k) == [objs EXCEPT ![target] = sort(objs[target], k)]

\* src/trip_finder.py TripOptimizer.find_best_combinations up to the sort: the
\* argument lists and valid_combos.
legacy_find_objects(m1, m2, seg1, seg2, seg3, seg4) ==
    LET passing == SelectSeq(product(<<seg1, seg2, seg3, seg4>>),
                       LAMBDA t : legacy_validate_dates(m1, m2,
                                      t[1].departure_date, t[2].departure_date,
                                      t[3].departure_date, t[4].departure_date))
        combos  == [i \in 1..Len(passing) |->
                       LET t == passing[i]
                       IN  <<t[1], t[2], t[3], t[4],
                             t[1].price + t[2].price + t[3].price + t[4].price>>]
    IN  sort_in_place(<<seg1, seg2, seg3, seg4, combos>>, 5, 5)

\* src/trip_finder.py TripOptimizer.find_best_combinations
legacy_find_best_combinations(m1, m2, seg1, seg2, seg3, seg4, n) ==
    slice(legacy_find_objects(m1, m2, seg1, seg2, seg3, seg4)[5], n)

legacy_find_raises(seg1, seg2, seg3, seg4) ==
    \E t \in Range(product(<<seg1, seg2, seg3, seg4>>)) :
        legacy_validate_dates_raises(t[1].departure_date, t[2].departure_date,
                                     t[3].departure_date, t[4].departure_date)

\* A search that combines all four legs, as src/trip_finder.py does.
find_objects_reading_seg4(m1, m2, seg1, seg2, seg3, seg4) ==
    legacy_find_objects(m1, m2, seg1, seg2, seg3, seg4)

\* src/trip_finder/trip_finder.py TripOptimizer.find_best_combinations up to
\* the sort.  seg4 is not read.
find_objects(m1, m2, seg1, seg2, seg3, seg4) ==
    IF seg3 = <<>>
    THEN LET passing == SelectSeq(product(<<seg1, seg2>>),
                            LAMBDA t : validate_dates(m1, m2,
                                           t[1].departure_date, t[2].departure_date,
                                           None, None))
             combos  == [i \in 1..Len(passing) |->
                            LET t == passing[i]
                            IN  <<t[1], t[2], None, None, t[1].price + t[2].price>>]
         IN  sort_in_place(<<seg1, seg2, seg3, seg4, combos>>, 5, 5)
    ELSE LET passing == SelectSeq(product(<<seg1, seg2, seg3>>),
                            LAMBDA t : validate_dates(m1, m2,
                                           t[1].departure_date, t[2].departure_date,
                                           t[3].departure_date, None))
             combos  == [i \in 1..Len(passing) |->
                            LET t == passing[i]
                            IN  <<t[1], t[2], t[3], None,
                                  t[1].price + t[2].price + t[3].price>>]
         IN  sort_in_place(<<seg1, seg2, seg3, seg4, combos>>, 5, 5)

\* src/trip_finder/trip_finder.py TripOptimizer.find_best_combinations
find_best_combinations(m1, m2, seg1, seg2, seg3, seg4, n) ==
    slice(find_objects(m1, m2, seg1, seg2, seg3, seg4)[5], n)

find_raises(seg1, seg2, seg3, seg4) ==
    IF seg3 = <<>>
    THEN \E t \in Range(product(<<seg1, seg2>>)) :
             validate_dates_raises(t[1].departure_date, t[2].departure_date, None, None)
    ELSE \E t \in Range(product(<<seg1, seg2, seg3>>)) :
             validate_dates_raises(t[1].departure_date, t[2].departure_date,
                                   t[3].departure_date, None)

\* src/trip_finder_roundtrip.py RoundTripOptimizer.find_best_combinations up to
\* the sort.
legacy_rt_find_objects(m1, m2, rt1_flights, rt2_flights) ==
    LET passing == SelectSeq(product(<<rt1_flights, rt2_flights>>),
                       LAMBDA t : legacy_rt_validate_dates(m1, m2, t[1], t[2]))
        combos  == [i \in 1..Len(passing) |->
                       LET t == passing[i]
                       IN  <<t[1], t[2], t[1].total_price + t[2].total_price>>]
    IN  sort_in_place(<<rt1_flights, rt2_flights, combos>>, 3, 3)

\* src/trip_finder_roundtrip.py RoundTripOptimizer.find_best_combinations
legacy_rt_find_best_combinations(m1, m2, rt1_flights, rt2_flights, n) ==
    slice(legacy_rt_find_objects(m1, m2, rt1_flights, rt2_flights)[3], n)

legacy_rt_find_raises(rt1_flights, rt2_flights) ==
    \E t \in Range(product(<<rt1_flights, rt2_flights>>)) :
        legacy_rt_validate_dates_raises(t[1], t[2])

\* src/trip_finder/trip_finder_roundtrip.py RoundTripOptimizer.find_best_combinations
\* up to the sort.  With no rt2 candidates every rt1 candidate is appended;
\* validate_dates is not called on that path.
rt_find_objects(m1, m2, rt1_flights, rt2_flights) ==
    IF rt2_flights = <<>>
    THEN LET combos == [i \in 1..Len(rt1_flights) |->
                           <<rt1_flights[i], None, rt1_flights[i].total_price>>]
         IN  sort_in_place(<<rt1_flights, rt2_flights, combos>>, 3, 3)
    ELSE LET passing == SelectSeq(product(<<rt1_flights, rt2_flights>>),
                            LAMBDA t : rt_validate_dates(m1, m2, t[1], t[2]))
             combos  == [i \in 1..Len(passing) |->
                            LET t == passing[i]
                            IN  <<t[1], t[2], t[1].total_price + t[2].total_price>>]
         IN  sort_in_place(<<rt1_flights, rt2_flights, combos>>, 3, 3)

\* src/trip_finder/trip_finder_roundtrip.py RoundTripOptimizer.find_best_combinations
rt_find_best_combinations(m1, m2, rt1_flights, rt2_flights, n) ==
    slice(rt_find_objects(m1, m2, rt1_flights, rt2_flights)[3], n)

rt_find_raises(rt1_flights, rt2_flights) ==
    IF rt2_flights = <<>> THEN FALSE
    ELSE \E t \in Range(product(<<rt1_flights, rt2_flights>>)) :
             rt_validate_dates_raises(t[1], t[2])

\* ------------------------------------------------------------------ actions
NoCall ==
    /\ op = "none"
    /\ seg_dates = <<>> /\ rt_pair = <<>> /\ segs = <<>> /\ rts = <<>>
    /\ top_n = 0 /\ valid = FALSE /\ valid_combos = <<>>
    /\ raised = "none" /\ lists_after = <<>>

\* No driver is running.
NoRun ==
    [driver |-> "none", pc |-> "start", stopover2 |-> FALSE,
     called |-> FALSE, written |-> FALSE, error |-> "none"]

\* No search_flights / search_roundtrip call has been made.
NoSearch ==
    [pc |-> "idle", method |-> "none", dates |-> <<>>, page |-> None,
     failed |-> "none", value |-> <<>>, error |-> "none"]

\* No retrieval loop is running.
NoCaller ==
    [name |-> "none", pc |-> "idle", current |-> 0, end |-> 0,
     outbound_dates |-> <<>>, return_dates |-> <<>>, i |-> 0, j |-> 0,
     all_flights |-> <<>>, roundtrips |-> <<>>, searched |-> <<>>, error |-> "none",
     args |-> <<>>]

\* GoogleFlightsScraper.__init__: self.browser = None.
NoRetrieval ==
    /\ browser = "none"
    /\ open_pages = 0
    /\ search = NoSearch
    /\ caller = NoCaller

\* __init__(min_stopover1_days=4, min_stopover2_days=10)
Init ==
    /\ \/ min_stopover1_days \in Thresholds /\ min_stopover2_days \in Thresholds
       \/ /\ min_stopover1_days = DefaultMinStopover1Days
          /\ min_stopover2_days = DefaultMinStopover2Days
    /\ pc = "idle"
    /\ NoCall
    /\ run = NoRun
    /\ NoRetrieval
    /\ history = <<>>

\* The argument shapes of a segment-chain validate_dates call: 2, 3 or 4 dates.
DateArgs ==
    { <<d[1], d[2], None, None>> : d \in DateStrs \X DateStrs } \cup
    { <<d[1], d[2], d[3], None>> : d \in DateStrs \X DateStrs \X DateStrs } \cup
    (DateStrs \X DateStrs \X DateStrs \X DateStrs)

\* A method that ends by clearing the second threshold.
Returns_clearing_threshold(name) ==
    /\ pc' = "returned"
    /\ op' = name
    /\ min_stopover2_days' = 0
    /\ UNCHANGED <<min_stopover1_days, run, retrieval, history>>

\* No method assigns a field of the optimizer.
Returns(name) ==
    /\ pc' = "returned"
    /\ op' = name
    /\ UNCHANGED <<config, run, retrieval, history>>

\* validate_dates only reads its arguments.
ValidateCall(name, d, v) ==
    /\ Returns(name)
    /\ seg_dates' = d
    /\ valid' = v
    /\ raised' = "none"
    /\ lists_after' = d
    /\ UNCHANGED <<rt_pair, segs, rts, top_n, valid_combos>>

RtValidateCall(name, rt1, rt2, v) ==
    /\ Returns(name)
    /\ rt_pair' = <<rt1, rt2>>
    /\ valid' = v
    /\ raised' = "none"
    /\ lists_after' = <<rt1, rt2>>
    /\ UNCHANGED <<seg_dates, segs, rts, top_n, valid_combos>>

\* A search ends in the ValueError of a date that does not parse, before the
\* sort, or returns the truncated valid_combos; objs are its list objects at
\* the return.
FindCall(name, lists, n, raises, objs, result) ==
    /\ Returns(name)
    /\ segs' = lists
    /\ top_n' = n
    /\ raised' = IF raises THEN "ValueError" ELSE "none"
    /\ valid_combos' = IF raises THEN <<>> ELSE result
    /\ lists_after' = IF raises THEN lists ELSE SubSeq(objs, 1, 4)
    /\ UNCHANGED <<seg_dates, rt_pair, rts, valid>>

RtFindCall(name, lists, n, raises, objs, result) ==
    /\ Returns(name)
    /\ rts' = lists
    /\ top_n' = n
    /\ raised' = IF raises THEN "ValueError" ELSE "none"
    /\ valid_combos' = IF raises THEN <<>> ELSE result
    /\ lists_after' = IF raises THEN lists ELSE SubSeq(objs, 1, 2)
    /\ UNCHANGED <<seg_dates, rt_pair, segs, valid>>

LegacyValidateDates ==
    /\ pc = "idle"
    /\ \E d \in DateStrs \X DateStrs \X DateStrs \X DateStrs :
           ValidateCall("legacy_validate_dates", d,
               legacy_validate_dates(min_stopover1_days, min_stopover2_days,
                                     d[1], d[2], d[3], d[4]))

ValidateDates ==
    /\ pc = "idle"
    /\ \E d \in DateArgs :
           ValidateCall("validate_dates", d,
               validate_dates(min_stopover1_days, min_stopover2_days,
                              d[1], d[2], d[3], d[4]))

LegacyRtValidateDates ==
    /\ pc = "idle"
    /\ \E rt1 \in RoundTrips, rt2 \in RoundTrips :
           RtValidateCall("legacy_rt_validate_dates", rt1, rt2,
               legacy_rt_validate_dates(min_stopover1_days, min_stopover2_days, rt1, rt2))

RtValidateDates ==
    /\ pc = "idle"
    /\ \E rt1 \in RoundTrips, rt2 \in RoundTrips \cup {None} :
           RtValidateCall("rt_validate_dates", rt1, rt2,
               rt_validate_dates(min_stopover1_days, min_stopover2_days, rt1, rt2))

LegacyFind(s, n) ==
    FindCall("legacy_find_best_combinations", s, n,
        legacy_find_raises(s[1], s[2], s[3], s[4]),
        legacy_find_objects(min_stopover1_days, min_stopover2_days, s[1], s[2], s[3], s[4]),
        legacy_find_best_combinations(min_stopover1_days, min_stopover2_days,
                                      s[1], s[2], s[3], s[4], n))

LegacyFindBestCombinations ==
    /\ pc = "idle"
    /\ \/ \E seg1 \in ListsUpTo(SegPool(1), MaxFlights) :
          \E seg2 \in ListsUpTo(SegPool(2), MaxFlights - Len(seg1)) :
          \E seg3 \in ListsUpTo(SegPool(3), MaxFlights - Len(seg1) - Len(seg2)) :
          \E seg4 \in ListsUpTo(SegPool(4), MaxFlights - Len(seg1) - Len(seg2) - Len(seg3)) :
          \E n \in TopNs : LegacyFind(<<seg1, seg2, seg3, seg4>>, n)
       \/ \E s \in SegArgsWithMalformed : \E n \in TopNs : LegacyFind(s, n)

Find(s, n) ==
    FindCall("find_best_combinations", s, n,
        find_raises(s[1], s[2], s[3], s[4]),
        find_objects(min_stopover1_days, min_stopover2_days, s[1], s[2], s[3], s[4]),
        find_best_combinations(min_stopover1_days, min_stopover2_days,
                               s[1], s[2], s[3], s[4], n))

FindBestCombinations ==
    /\ pc = "idle"
    /\ \/ \E seg1 \in ListsUpTo(SegPool(1), MaxFlights) :
          \E seg2 \in ListsUpTo(SegPool(2), MaxFlights - Len(seg1)) :
          \E seg3 \in ListsUpTo(SegPool(3), MaxFlights - Len(seg1) - Len(seg2)) :
          \E seg4 \in ListsUpTo(SegPool(4), MaxFlights - Len(seg1) - Len(seg2) - Len(seg3)) :
          \E n \in TopNs : Find(<<seg1, seg2, seg3, seg4>>, n)
       \/ \E s \in SegArgsWithMalformed : \E n \in TopNs : Find(s, n)

LegacyRtFind(r, n) ==
    RtFindCall("legacy_rt_find_best_combinations", r, n,
        legacy_rt_find_raises(r[1], r[2]),
        legacy_rt_find_objects(min_stopover1_days, min_stopover2_days, r[1], r[2]),
        legacy_rt_find_best_combinations(min_stopover1_days, min_stopover2_days,
                                         r[1], r[2], n))

LegacyRtFindBestCombinations ==
    /\ pc = "idle"
    /\ \/ \E rt1_flights \in ListsUpTo(RtPool(1), MaxRoundTrips) :
          \E rt2_flights \in ListsUpTo(RtPool(2), MaxRoundTrips - Len(rt1_flights)) :
          \E n \in TopNs : LegacyRtFind(<<rt1_flights, rt2_flights>>, n)
       \/ \E r \in RtArgsWithMalformed : \E n \in TopNs : LegacyRtFind(r, n)

RtFind(r, n) ==
    RtFindCall("rt_find_best_combinations", r, n,
        rt_find_raises(r[1], r[2]),
        rt_find_objects(min_stopover1_days, min_stopover2_days, r[1], r[2]),
        rt_find_best_combinations(min_stopover1_days, min_stopover2_days, r[1], r[2], n))

RtFindBestCombinations ==
    /\ pc = "idle"
    /\ \/ \E rt1_flights \in ListsUpTo(RtPool(1), MaxRoundTrips) :
          \E rt2_flights \in ListsUpTo(RtPool(2), MaxRoundTrips - Len(rt1_flights)) :
          \E n \in TopNs : RtFind(<<rt1_flights, rt2_flights>>, n)
       \/ \E r \in RtArgsWithMalformed : \E n \in TopNs : RtFind(r, n)

\* The caller drops the returned value; the optimizer is ready for the next call.
Return ==
    /\ pc = "returned"
    /\ pc' = "idle"
    /\ op' = "none"
    /\ seg_dates' = <<>> /\ rt_pair' = <<>> /\ segs' = <<>> /\ rts' = <<>>
    /\ top_n' = 0 /\ valid' = FALSE /\ valid_combos' = <<>>
    /\ raised' = "none" /\ lists_after' = <<>>
    /\ UNCHANGED <<config, run, retrieval, history>>

Next ==
    \/ LegacyValidateDates
    \/ ValidateDates
    \/ LegacyRtValidateDates
    \/ RtValidateDates
    \/ LegacyFindBestCombinations
    \/ FindBestCombinations
    \/ LegacyRtFindBestCombinations
    \/ RtFindBestCombinations
    \/ Return

Spec == Init /\ [][Next]_vars

\* -------------------------------------------------------------- CLI drivers
\* What the retrieval loops of a driver can leave in the list of a leg (pair):
\* nothing, or the first records found for it.
SegFound(i) ==
    CASE i = 1 -> <<Flight(1, 500), Flight(2, 450)>>
      [] i = 2 -> <<Flight(2, 100), Flight(3, 150)>>
      [] i = 3 -> <<Flight(3, 120), Flight(5, 70)>>
      [] i = 4 -> <<Flight(5, 480), Flight(6, 430)>>

RtFound(i) ==
    CASE i = 1 -> <<RoundTripFlight(1, 6, 1000), RoundTripFlight(2, 5, 950)>>
      [] i = 2 -> <<RoundTripFlight(2, 4, 200), RoundTripFlight(3, 4, 250)>>

Retrieved(found) == { SubSeq(found, 1, k) : k \in 0..Len(found) }

\* src/trip_finder.py: if not all([seg1_flights, seg2_flights, seg3_flights, seg4_flights])
legacy_has_flights(seg1, seg2, seg3, seg4) ==
    seg1 # <<>> /\ seg2 # <<>> /\ seg3 # <<>> /\ seg4 # <<>>

\* The package driver without its check of segment 3.
run_search_has_flights_no_seg3(stopover2, seg1, seg2, seg3) ==
    ~(seg1 = <<>> \/ seg2 = <<>>)

\* src/trip_finder/trip_finder.py: the two checks before the search.
run_search_has_flights(stopover2, seg1, seg2, seg3) ==
    /\ ~(seg1 = <<>> \/ seg2 = <<>>)
    /\ ~(stopover2 /\ seg3 = <<>>)

\* src/trip_finder_roundtrip.py: if not all([rt1_roundtrips, rt2_roundtrips])
legacy_rt_has_flights(rt1, rt2) == rt1 # <<>> /\ rt2 # <<>>

\* src/trip_finder/trip_finder_roundtrip.py: the two checks before the search.
rt_run_search_has_flights(stopover2, rt1, rt2) ==
    /\ rt1 # <<>>
    /\ ~(stopover2 /\ rt2 = <<>>)

\* The display and JSON loops of the segment drivers read f.departure_date of
\* all four legs of every combination; on a leg that is None this is an
\* AttributeError.
display_raises(best_combos) ==
    \E i \in 1..Len(best_combos) : \E j \in 1..4 : best_combos[i][j] = None

\* src/trip_finder_roundtrip.py reads rt2.outbound_date of every combination.
legacy_rt_display_raises(best_combos) ==
    \E i \in 1..Len(best_combos) : best_combos[i][2] = None

\* src/trip_finder/trip_finder_roundtrip.py reads rt2 only "if rt2".
rt_display_raises(best_combos) == FALSE

\* A driver has parsed its options, constructed the optimizer and run its
\* retrieval loops.
Searched(name, stopover2) ==
    /\ run' = [NoRun EXCEPT !.driver = name, !.pc = "searched", !.stopover2 = stopover2]
    /\ UNCHANGED <<retrieval, history>>

\* The driver returns without a search.
NotEnoughFlights ==
    /\ run' = [run EXCEPT !.pc = "returned"]
    /\ UNCHANGED <<op, valid_combos, retrieval, history>>

\* best_combos = optimizer.find_best_combinations(...)
Optimized(name, result) ==
    /\ run' = [run EXCEPT !.pc = "optimized", !.called = TRUE]
    /\ op' = name
    /\ valid_combos' = result
    /\ UNCHANGED <<retrieval, history>>

\* "if not best_combos: return", then the display loop, the JSON loop and
\* json.dump into the output file.
Reported(raises) ==
    /\ run' = IF valid_combos = <<>> THEN [run EXCEPT !.pc = "returned"]
              ELSE IF raises THEN [run EXCEPT !.pc = "raised", !.error = "AttributeError"]
              ELSE [run EXCEPT !.pc = "done", !.written = TRUE]
    /\ UNCHANGED <<config, pc, op, seg_dates, rt_pair, segs, rts, top_n, valid,
                   valid_combos, raised, lists_after, retrieval, history>>

\* src/trip_finder.py main
LegacyMainSearch ==
    /\ run.pc = "start"
    /\ \E seg1 \in Retrieved(SegFound(1)), seg2 \in Retrieved(SegFound(2)),
          seg3 \in Retrieved(SegFound(3)), seg4 \in Retrieved(SegFound(4)), n \in TopNs :
           /\ Searched("legacy_main", TRUE)
           /\ segs' = <<seg1, seg2, seg3, seg4>>
           /\ top_n' = n
    /\ UNCHANGED <<config, pc, op, seg_dates, rt_pair, rts, valid, valid_combos,
                   raised, lists_after>>

LegacyMainOptimize ==
    /\ run.driver = "legacy_main" /\ run.pc = "searched"
    /\ IF ~legacy_has_flights(segs[1], segs[2], segs[3], segs[4])
       THEN NotEnoughFlights
       ELSE Optimized("legacy_find_best_combinations",
                legacy_find_best_combinations(min_stopover1_days, min_stopover2_days,
                    segs[1], segs[2], segs[3], segs[4], top_n))
    /\ UNCHANGED <<config, pc, seg_dates, rt_pair, segs, rts, top_n, valid,
                   raised, lists_after>>

LegacyMainReport ==
    /\ run.driver = "legacy_main" /\ run.pc = "optimized"
    /\ Reported(display_raises(valid_combos))

\* src/trip_finder/trip_finder.py run_search.  A double stopover needs both
\* --seg3-dates and --seg4-dates; seg4_flights stays empty.
RunSearchSearch ==
    /\ run.pc = "start"
    /\ \E stopover2 \in BOOLEAN, dates_given \in BOOLEAN, n \in TopNs :
       \E seg1 \in Retrieved(SegFound(1)), seg2 \in Retrieved(SegFound(2)),
          seg3 \in IF stopover2 THEN Retrieved(SegFound(3)) ELSE {<<>>} :
           IF stopover2 /\ ~dates_given
           THEN /\ run' = [NoRun EXCEPT !.driver = "run_search", !.pc = "returned",
                                        !.stopover2 = stopover2]
                /\ segs' = <<<<>>, <<>>, <<>>, <<>>>>
                /\ top_n' = n
                /\ UNCHANGED <<retrieval, history>>
           ELSE /\ Searched("run_search", stopover2)
                /\ segs' = <<seg1, seg2, seg3, <<>>>>
                /\ top_n' = n
    /\ UNCHANGED <<config, pc, op, seg_dates, rt_pair, rts, valid, valid_combos,
                   raised, lists_after>>

RunSearchOptimize ==
    /\ run.driver = "run_search" /\ run.pc = "searched"
    /\ IF ~run_search_has_flights(run.stopover2, segs[1], segs[2], segs[3])
       THEN NotEnoughFlights
       ELSE Optimized("find_best_combinations",
                find_best_combinations(min_stopover1_days, min_stopover2_days,
                    segs[1], segs[2], segs[3], segs[4], top_n))
    /\ UNCHANGED <<config, pc, seg_dates, rt_pair, segs, rts, top_n, valid,
                   raised, lists_after>>

RunSearchReport ==
    /\ run.driver = "run_search" /\ run.pc = "optimized"
    /\ Reported(display_raises(valid_combos))

\* src/trip_finder_roundtrip.py main
LegacyRtMainSearch ==
    /\ run.pc = "start"
    /\ \E rt1 \in Retrieved(RtFound(1)), rt2 \in Retrieved(RtFound(2)), n \in TopNs :
           /\ Searched("legacy_rt_main", TRUE)
           /\ rts' = <<rt1, rt2>>
           /\ top_n' = n
    /\ UNCHANGED <<config, pc, op, seg_dates, rt_pair, segs, valid, valid_combos,
                   raised, lists_after>>

LegacyRtMainOptimize ==
    /\ run.driver = "legacy_rt_main" /\ run.pc = "searched"
    /\ IF ~legacy_rt_has_flights(rts[1], rts[2])
       THEN NotEnoughFlights
       ELSE Optimized("legacy_rt_find_best_combinations",
                legacy_rt_find_best_combinations(min_stopover1_days, min_stopover2_days,
                    rts[1], rts[2], top_n))
    /\ UNCHANGED <<config, pc, seg_dates, rt_pair, segs, rts, top_n, valid,
                   raised, lists_after>>

LegacyRtMainReport ==
    /\ run.driver = "legacy_rt_main" /\ run.pc = "optimized"
    /\ Reported(legacy_rt_display_raises(valid_combos))

\* src/trip_finder/trip_finder_roundtrip.py run_search.  Without a second
\* stopover the optimizer is constructed with min_stopover2_days = 0 and rt2 is
\* not retrieved.
RtRunSearchSearch ==
    /\ run.pc = "start"
    /\ \E stopover2 \in BOOLEAN, n \in TopNs :
       \E rt1 \in Retrieved(RtFound(1)),
          rt2 \in IF stopover2 THEN Retrieved(RtFound(2)) ELSE {<<>>} :
           /\ Searched("rt_run_search", stopover2)
           /\ min_stopover2_days' = IF stopover2 THEN min_stopover2_days ELSE 0
           /\ rts' = <<rt1, rt2>>
           /\ top_n' = n
    /\ UNCHANGED <<min_stopover1_days, pc, op, seg_dates, rt_pair, segs, valid,
                   valid_combos, raised, lists_after>>

RtRunSearchOptimize ==
    /\ run.driver = "rt_run_search" /\ run.pc = "searched"
    /\ IF ~rt_run_search_has_flights(run.stopover2, rts[1], rts[2])
       THEN NotEnoughFlights
       ELSE Optimized("rt_find_best_combinations",
                rt_find_best_combinations(min_stopover1_days, min_stopover2_days,
                    rts[1], IF run.stopover2 THEN rts[2] ELSE <<>>, top_n))
    /\ UNCHANGED <<config, pc, seg_dates, rt_pair, segs, rts, top_n, valid,
                   raised, lists_after>>

RtRunSearchReport ==
    /\ run.driver = "rt_run_search" /\ run.pc = "optimized"
    /\ Reported(rt_display_raises(valid_combos))

DriverNext ==
    \/ LegacyMainSearch
    \/ LegacyMainOptimize
    \/ LegacyMainReport
    \/ RunSearchSearch
    \/ RunSearchOptimize
    \/ RunSearchReport
    \/ LegacyRtMainSearch
    \/ LegacyRtMainOptimize
    \/ LegacyRtMainReport
    \/ RtRunSearchSearch
    \/ RtRunSearchOptimize
    \/ RtRunSearchReport

\* One run of one driver.
DriverSpec == Init /\ [][DriverNext]_vars


\* -------------------------------------------------------- text of a date
\* A str is the sequence of its code points.
Space == 32
Comma == 44
Dash  == 45
Zero  == 48
Colon == 58

Digit(d) == Zero + d

IsDigit(c) == c \in Zero..(Zero + 9)

TwoDigits(n) == <<Digit(n \div 10), Digit(n % 10)>>

\* A number written without a leading zero.
Unpadded(n) == IF n < 10 THEN <<Digit(n)>> ELSE TwoDigits(n)

FourDigits(y) ==
    <<Digit(y \div 1000), Digit((y \div 100) % 10), Digit((y \div 10) % 10), Digit(y % 10)>>

\* The text "YYYY-MM-DD" of a date <<Y, M, D>>, and the text "YYYY-M-D".
Text(s) == FourDigits(s[1]) \o <<Dash>> \o TwoDigits(s[2]) \o <<Dash>> \o TwoDigits(s[3])

ShortText(s) == FourDigits(s[1]) \o <<Dash>> \o Unpadded(s[2]) \o <<Dash>> \o Unpadded(s[3])

\* a > b on two str values: code point by code point, a proper prefix is smaller.
StrGreater(a, b) ==
    \E i \in 1..Len(a) :
        /\ \A j \in 1..(i - 1) : j <= Len(b) /\ a[j] = b[j]
        /\ (i > Len(b) \/ a[i] > b[i])

\* str.split(sep)
RECURSIVE split(_, _)
split(s, sep) ==
    IF \A i \in 1..Len(s) : s[i] # sep THEN <<s>>
    ELSE LET i == CHOOSE i \in 1..Len(s) : s[i] = sep /\ \A j \in 1..(i - 1) : s[j] # sep
         IN  <<SubSeq(s, 1, i - 1)>> \o split(SubSeq(s, i + 1, Len(s)), sep)

\* str.strip() on text whose only whitespace is the space
RECURSIVE strip(_)
strip(s) ==
    IF s = <<>> THEN s
    ELSE IF s[1] = Space THEN strip(Tail(s))
    ELSE IF s[Len(s)] = Space THEN strip(SubSeq(s, 1, Len(s) - 1))
    ELSE s

RECURSIVE Number(_)
Number(cs) ==
    IF cs = <<>> THEN 0
    ELSE Number(SubSeq(cs, 1, Len(cs) - 1)) * 10 + (cs[Len(cs)] - Zero)

AllDigits(cs) == \A i \in 1..Len(cs) : IsDigit(cs[i])

\* The pattern of "%Y-%m-%d": four digits, a month 1..12 and a day 1..31 of one
\* or two digits each (the day also as a space and one digit), nothing else.
MatchesFormat(t) ==
    LET f == split(t, Dash)
    IN  /\ Len(f) = 3
        /\ Len(f[1]) = 4 /\ AllDigits(f[1])
        /\ Len(f[2]) \in 1..2 /\ AllDigits(f[2]) /\ Number(f[2]) \in 1..12
        /\ \/ Len(f[3]) \in 1..2 /\ AllDigits(f[3]) /\ Number(f[3]) \in 1..31
           \/ Len(f[3]) = 2 /\ f[3][1] = Space /\ f[3][2] \in (Zero + 1)..(Zero + 9)

\* The fields of a text that matches the pattern, as <<Y, M, D>>.
Fields(t) ==
    LET f == split(t, Dash)
    IN  <<Number(f[1]), Number(f[2]), Number(strip(f[3]))>>

\* datetime.strptime(t, "%Y-%m-%d") returns a datetime; otherwise ValueError.
Parses(t) == MatchesFormat(t) /\ Fields(t)[1] >= 1 /\ IsDate(Fields(t))

\* The day ordinal of a text that parses.
OrdinalOf(t) == strptime(Fields(t))

\* datetime.max is in year 9999: adding a day to 9999-12-31 is an OverflowError.
MaxDate == <<9999, 12, 31>>

MaxOrdinal == strptime(MaxDate)

\* The date <<Y, M, D>> of a day ordinal.
FromOrdinal(n) ==
    LET y0 == ((n * 400) \div 146097) + 1
        y  == CHOOSE y \in (y0 - 1)..(y0 + 1) :
                  DaysBeforeYear(y) < n /\ n <= DaysBeforeYear(y + 1)
        r  == n - DaysBeforeYear(y)
        m  == CHOOSE m \in 1..12 :
                  DaysBeforeMonth(y, m) < r /\ r <= DaysBeforeMonth(y, m) + DaysInMonth(y, m)
    IN  <<y, m, r - DaysBeforeMonth(y, m)>>

\* current.strftime("%Y-%m-%d")
strftime(n) == Text(FromOrdinal(n))


\* ------------------------------------------------------------ the scraper
MaxCards == 3   \* flight cards on one results page
MaxSpan  == 3   \* calendar dates covered by one search_date_range call

\* extract_flights reads the first 20 cards; extract_roundtrip_flights parses
\* the first 15 candidates and returns the first 3 after sorting.
FlightCardLimit == 20
RoundTripCandidateLimit == 15
RoundTripTop == 3

\* What the patterns of the extraction find in the text of one card: price 0
\* when no price is found, "00:00" when no time is found, the duration in
\* minutes; raises: reading or parsing the card ends in an exception.
Card(price, departure_time, arrival_time, duration, airline, stops, raises) ==
    [price |-> price, departure_time |-> departure_time, arrival_time |-> arrival_time,
     duration |-> duration, airline |-> airline, stops |-> stops, raises |-> raises]

\* Two cards of one flight (same price, departure time, airline and stops), a
\* cheaper and a dearer flight, a card without a price, a card without a time
\* and a card that cannot be read.
Cards ==
    { Card(450, "08:00", "20:00", 780, "BA", 0, FALSE),
      Card(450, "08:00", "21:30", 810, "BA", 0, FALSE),
      Card(300, "10:15", "06:40", 900, "CX", 1, FALSE),
      Card(0,   "09:00", "21:00", 720, "VS", 0, FALSE),
      Card(520, "00:00", "00:00", 700, "LH", 1, FALSE),
      Card(450, "08:00", "20:00", 780, "BA", 0, TRUE) }

\* A results page: its cards in document order; scan_fails: the scan for the
\* cards (query_selector_all, inner_text of a div) ends in an exception.
Page(cards, scan_fails) == [cards |-> cards, scan_fails |-> scan_fails]

Pages == { Page(cards, scan_fails) : cards \in ListsUpTo(Cards, MaxCards),
                                     scan_fails \in BOOLEAN }

\* The pages served to the searches of a retrieval loop.
LoopPages ==
    { Page(<<>>, FALSE),
      Page(<<Card(450, "08:00", "20:00", 780, "BA", 0, FALSE)>>, TRUE),
      Page(<<Card(450, "08:00", "20:00", 780, "BA", 0, FALSE),
             Card(300, "10:15", "06:40", 900, "CX", 1, FALSE)>>, FALSE) }

\* Flight(...) as extract_flights builds it.
ScrapedFlight(card, departure_date) ==
    [departure_date |-> departure_date, price |-> card.price, airline |-> card.airline,
     departure_time |-> card.departure_time, arrival_time |-> card.arrival_time,
     stops |-> card.stops]

\* RoundTripFlight(...) as extract_roundtrip_flights builds it.
ScrapedRoundTrip(card, outbound_date, return_date) ==
    [outbound_date |-> outbound_date, return_date |-> return_date,
     total_price |-> card.price, outbound_airline |-> card.airline,
     outbound_departure_time |-> card.departure_time,
     outbound_arrival_time |-> card.arrival_time,
     outbound_duration |-> card.duration, outbound_stops |-> card.stops]

\* key = (flight.price, flight.departure_time, flight.airline, flight.stops)
FlightKey(flight) == <<flight.price, flight.departure_time, flight.airline, flight.stops>>

\* A deduplication that keeps the last flight of each key.
RECURSIVE unique_flights_keeping_last(_)
unique_flights_keeping_last(flights) ==
    IF flights = <<>> THEN <<>>
    ELSE LET rest == Tail(flights)
         IN  IF \E i \in 1..Len(rest) : FlightKey(rest[i]) = FlightKey(Head(flights))
             THEN unique_flights_keeping_last(rest)
             ELSE <<Head(flights)>> \o unique_flights_keeping_last(rest)

\* The loop over flights with the set seen: a flight is kept unless an earlier
\* flight has its key.
RECURSIVE unique_flights(_)
unique_flights(flights) ==
    IF flights = <<>> THEN <<>>
    ELSE LET front == SubSeq(flights, 1, Len(flights) - 1)
             last  == flights[Len(flights)]
         IN  IF \E i \in 1..Len(front) : FlightKey(front[i]) = FlightKey(last)
             THEN unique_flights(front)
             ELSE Append(unique_flights(front), last)

\* key = (rt.total_price, rt.outbound_departure_time, rt.outbound_airline)
RoundTripKey(rt) == <<rt.total_price, rt.outbound_departure_time, rt.outbound_airline>>

RECURSIVE unique_roundtrips(_)
unique_roundtrips(roundtrips) ==
    IF roundtrips = <<>> THEN <<>>
    ELSE LET front == SubSeq(roundtrips, 1, Len(roundtrips) - 1)
             last  == roundtrips[Len(roundtrips)]
         IN  IF \E i \in 1..Len(front) : RoundTripKey(front[i]) = RoundTripKey(last)
             THEN unique_roundtrips(front)
             ELSE Append(unique_roundtrips(front), last)

\* The card loop of extract_flights: a card that raises is skipped, a flight
\* is appended when its price is positive.
parsed_flights(cards, departure_date) ==
    LET read == SelectSeq(slice(cards, FlightCardLimit),
                          LAMBDA c : ~c.raises /\ c.price > 0)
    IN  [i \in 1..Len(read) |-> ScrapedFlight(read[i], departure_date)]

\* GoogleFlightsScraper.extract_flights.  An exception of the scan is caught
\* and the list flights, still empty, is returned.
extract_flights(page, departure_date) ==
    IF page.scan_fails THEN <<>>
    ELSE IF page.cards = <<>> THEN <<>>
    ELSE unique_flights(parsed_flights(page.cards, departure_date))

\* GoogleFlightsScraper.extract_roundtrip_flights: a round trip needs a
\* positive price and a departure time; the cheapest (shortest first among
\* equal prices) three are returned.
extract_roundtrip_flights(page, outbound_date, return_date) ==
    IF page.scan_fails THEN <<>>
    ELSE LET candidates == SelectSeq(page.cards, LAMBDA c : ~c.raises)
         IN  IF candidates = <<>> THEN <<>>
             ELSE LET read == SelectSeq(slice(candidates, RoundTripCandidateLimit),
                                  LAMBDA c : c.price > 0 /\ c.departure_time # "00:00")
                      roundtrips == [i \in 1..Len(read) |->
                                        ScrapedRoundTrip(read[i], outbound_date, return_date)]
                      by_duration == sort(unique_roundtrips(roundtrips), "outbound_duration")
                  IN  slice(sort(by_duration, "total_price"), RoundTripTop)


\* ------------------------------------------- search_flights, search_roundtrip
\* A date that does not exist, and the dates around a month boundary and at
\* the end of the calendar of datetime.
BadText == Text(BadDateStr)

RangeDays ==
    { <<2026, 2, 27>>, <<2026, 2, 28>>, <<2026, 3, 1>>, <<2026, 3, 2>>,
      <<9999, 12, 30>>, MaxDate }

\* Date strings a caller hands to the scraper: zero-padded, unpadded, malformed.
DateTexts == { Text(d) : d \in RangeDays } \cup { ShortText(<<2026, 3, 1>>), BadText }

\* The frame of the scraper's actions: the optimizer and the drivers' runs.
Elsewhere ==
    <<min_stopover1_days, min_stopover2_days, pc, op, seg_dates, rt_pair, segs, rts,
      top_n, valid, valid_combos, raised, lists_after, run, history>>

\* __aenter__: the browser is launched.
Enter ==
    /\ browser = "none"
    /\ search.pc = "idle" /\ caller.pc = "idle"
    /\ browser' = "launched"
    /\ UNCHANGED <<open_pages, search, caller>>
    /\ UNCHANGED Elsewhere

\* __aexit__: the browser is closed, and its pages with it.
Exit ==
    /\ browser = "launched"
    /\ search.pc = "idle" /\ caller.pc = "idle"
    /\ browser' = "closed"
    /\ open_pages' = 0
    /\ UNCHANGED <<search, caller>>
    /\ UNCHANGED Elsewhere

\* The start of search_flights and search_roundtrip up to "try:": RuntimeError
\* without a browser, the ValueError of build_search_url for a date that does
\* not parse, the error of new_page on a closed browser; otherwise a page is
\* open.
Called(method, dates) ==
    LET raise(e) == /\ search' = [NoSearch EXCEPT !.pc = "raised", !.method = method,
                                                  !.dates = dates, !.error = e]
                    /\ open_pages' = open_pages
    IN  IF browser = "none" THEN raise("RuntimeError")
        ELSE IF \E i \in 1..Len(dates) : ~Parses(dates[i]) THEN raise("ValueError")
        ELSE IF browser = "closed" THEN raise("TargetClosedError")
        ELSE /\ search' = [NoSearch EXCEPT !.pc = "opened", !.method = method,
                                           !.dates = dates]
             /\ open_pages' = open_pages + 1

\* A return that skips the finally clause.
Finished_leaving_page_open(value, failed, page) ==
    /\ search' = [search EXCEPT !.pc = "returned", !.value = value, !.failed = failed,
                                !.page = page]
    /\ open_pages' = open_pages

\* "return flights" or "return []", then "finally: await page.close()"; page
\* is what the browser had loaded.
Finished(value, failed, page) ==
    /\ search' = [search EXCEPT !.pc = "returned", !.value = value, !.failed = failed,
                                !.page = page]
    /\ open_pages' = open_pages - 1

\* A driver calls search_flights for one date.
SearchFlights ==
    /\ caller.pc = "idle" /\ search.pc = "idle"
    /\ \E t \in DateTexts : Called("search_flights", <<t>>)
    /\ UNCHANGED <<browser, caller>>
    /\ UNCHANGED Elsewhere

\* A caller outside the drivers' guard calls search_roundtrip.
SearchRoundtrip ==
    /\ caller.pc = "idle" /\ search.pc = "idle"
    /\ \E o \in DateTexts, r \in DateTexts : Called("search_roundtrip", <<o, r>>)
    /\ UNCHANGED <<browser, caller>>
    /\ UNCHANGED Elsewhere

\* page.goto: the page loads, or the exception is caught and [] is returned.
\* The cookie dialog is handled inside its own try and changes nothing here.
Navigate ==
    /\ search.pc = "opened"
    /\ \E loads \in BOOLEAN :
           IF loads
           THEN /\ search' = [search EXCEPT !.pc = "loaded"]
                /\ open_pages' = open_pages
           ELSE Finished(<<>>, "navigation", None)
    /\ UNCHANGED <<browser, caller>>
    /\ UNCHANGED Elsewhere

\* The extraction, the delay and the return.
Extract ==
    /\ search.pc = "loaded"
    /\ \E page \in (IF caller.name = "none" THEN Pages ELSE LoopPages) :
           Finished(IF search.method = "search_flights"
                    THEN extract_flights(page, search.dates[1])
                    ELSE extract_roundtrip_flights(page, search.dates[1], search.dates[2]),
                    IF page.scan_fails THEN "extraction" ELSE "none", page)
    /\ UNCHANGED <<browser, caller>>
    /\ UNCHANGED Elsewhere

\* The caller of a single search takes what the call returned or raised.
SearchDone ==
    /\ caller.name = "none"
    /\ search.pc \in {"returned", "raised"}
    /\ search' = NoSearch
    /\ UNCHANGED <<browser, open_pages, caller>>
    /\ UNCHANGED Elsewhere


\* ---------------------------------------------------------- parse_date_range
\* The while loop of a range part: one date per day from current to end_date;
\* "current += timedelta(days=1)" past 9999-12-31 is an OverflowError.
RECURSIVE range_dates_exclusive(_, _)
range_dates_exclusive(current, end_date) ==
    IF ~(current < end_date) THEN [dates |-> <<>>, raised |-> "none"]
    ELSE IF current + 1 > MaxOrdinal
    THEN [dates |-> <<strftime(current)>>, raised |-> "OverflowError"]
    ELSE LET rest == range_dates_exclusive(current + 1, end_date)
         IN  [dates |-> <<strftime(current)>> \o rest.dates, raised |-> rest.raised]

RECURSIVE range_dates(_, _)
range_dates(current, end_date) ==
    IF ~(current <= end_date) THEN [dates |-> <<>>, raised |-> "none"]
    ELSE IF current + 1 > MaxOrdinal
    THEN [dates |-> <<strftime(current)>>, raised |-> "OverflowError"]
    ELSE LET rest == range_dates(current + 1, end_date)
         IN  [dates |-> <<strftime(current)>> \o rest.dates, raised |-> rest.raised]

\* One part: "START:END" is unpacked into two strings (ValueError when the
\* split gives another number of pieces) and both are parsed; a part without a
\* colon is appended as it is.
part_dates(part) ==
    IF \E i \in 1..Len(part) : part[i] = Colon
    THEN LET pieces == split(part, Colon)
         IN  IF Len(pieces) # 2 THEN [dates |-> <<>>, raised |-> "ValueError"]
             ELSE IF ~Parses(strip(pieces[1])) \/ ~Parses(strip(pieces[2]))
             THEN [dates |-> <<>>, raised |-> "ValueError"]
             ELSE range_dates(OrdinalOf(strip(pieces[1])), OrdinalOf(strip(pieces[2])))
    ELSE [dates |-> <<part>>, raised |-> "none"]

\* The loop over the parts stops at the first part that raises.
RECURSIVE parts_dates(_)
parts_dates(parts) ==
    IF parts = <<>> THEN [dates |-> <<>>, raised |-> "none"]
    ELSE LET first == part_dates(Head(parts))
         IN  IF first.raised # "none" THEN first
             ELSE LET rest == parts_dates(Tail(parts))
                  IN  [dates |-> first.dates \o rest.dates, raised |-> rest.raised]

\* src/trip_finder/trip_finder_roundtrip.py parse_date_range
parse_date_range(date_string) ==
    LET pieces == split(date_string, Comma)
        parts  == [i \in 1..Len(pieces) |-> strip(pieces[i])]
        r      == parts_dates(parts)
    IN  [value |-> IF r.raised = "none" THEN r.dates ELSE None, raised |-> r.raised]

\* src/trip_finder_roundtrip.py: [d.strip() for d in args.rt1_outbound_dates.split(',')]
legacy_date_list(option) ==
    LET pieces == split(option, Comma)
    IN  [i \in 1..Len(pieces) |-> strip(pieces[i])]

\* ----------------------------------------------------------- retrieval loops
\* GoogleFlightsScraper.search_date_range up to its loop: both dates are parsed.
SearchDateRange ==
    /\ caller.pc = "idle" /\ search.pc = "idle"
    /\ \E start_date \in DateTexts, end_date \in DateTexts :
           /\ (Parses(start_date) /\ Parses(end_date))
                  => OrdinalOf(end_date) - OrdinalOf(start_date) < MaxSpan
           /\ caller' =
                  IF ~Parses(start_date) \/ ~Parses(end_date)
                  THEN [NoCaller EXCEPT !.name = "search_date_range", !.pc = "raised",
                                        !.args = <<start_date, end_date>>,
                                        !.error = "ValueError"]
                  ELSE [NoCaller EXCEPT !.name = "search_date_range", !.pc = "loop",
                                        !.args = <<start_date, end_date>>,
                                        !.current = OrdinalOf(start_date),
                                        !.end = OrdinalOf(end_date)]
    /\ UNCHANGED <<browser, open_pages, search>>
    /\ UNCHANGED Elsewhere

\* A loop that stops before the end date.
SearchDateRangeIterate_exclusive ==
    /\ caller.name = "search_date_range" /\ caller.pc = "loop" /\ search.pc = "idle"
    /\ IF caller.current < caller.end
       THEN /\ Called("search_flights", <<strftime(caller.current)>>)
            /\ caller' = [caller EXCEPT !.pc = "waiting"]
       ELSE /\ caller' = [caller EXCEPT !.pc = "returned"]
            /\ UNCHANGED <<open_pages, search>>
    /\ UNCHANGED browser
    /\ UNCHANGED Elsewhere

\* "while current <= end": the next search_flights call, or "return all_flights".
SearchDateRangeIterate ==
    /\ caller.name = "search_date_range" /\ caller.pc = "loop" /\ search.pc = "idle"
    /\ IF caller.current <= caller.end
       THEN /\ Called("search_flights", <<strftime(caller.current)>>)
            /\ caller' = [caller EXCEPT !.pc = "waiting"]
       ELSE /\ caller' = [caller EXCEPT !.pc = "returned"]
            /\ UNCHANGED <<open_pages, search>>
    /\ UNCHANGED browser
    /\ UNCHANGED Elsewhere

\* "all_flights.extend(flights)" and "current += timedelta(days=1)"; an
\* exception of search_flights leaves search_date_range.
SearchDateRangeCollect ==
    /\ caller.name = "search_date_range" /\ caller.pc = "waiting"
    /\ search.pc \in {"returned", "raised"}
    /\ caller' =
           IF search.pc = "raised"
           THEN [caller EXCEPT !.pc = "raised", !.error = search.error]
           ELSE LET extended == [caller EXCEPT !.all_flights = @ \o search.value,
                                               !.searched = Append(@, search)]
                IN  IF caller.current + 1 > MaxOrdinal
                    THEN [extended EXCEPT !.pc = "raised", !.error = "OverflowError"]
                    ELSE [extended EXCEPT !.pc = "loop", !.current = @ + 1]
    /\ search' = NoSearch
    /\ UNCHANGED <<browser, open_pages>>
    /\ UNCHANGED Elsewhere

\* --rt1-outbound-dates / --rt1-return-dates as the user may give them.
RtOptions ==
    { Text(<<2026, 2, 5>>), ShortText(<<2026, 2, 5>>),
      Text(<<2026, 10, 1>>), ShortText(<<2026, 10, 1>>),
      Text(<<2026, 2, 5>>) \o <<Comma, Space>> \o Text(<<2026, 10, 1>>),
      ShortText(<<2026, 2, 5>>) \o <<Comma>> \o Text(<<2026, 10, 1>>),
      Text(<<2026, 2, 5>>) \o <<Colon>> \o Text(<<2026, 2, 6>>),
      BadText }

\* The next (outbound_date, return_date) of the two nested loops.
Advance(c) ==
    IF c.j < Len(c.return_dates) THEN [c EXCEPT !.j = @ + 1]
    ELSE [c EXCEPT !.i = @ + 1, !.j = 1]

\* The nested date loops of a round-trip driver for one pair of airports:
\* "if return_date > outbound_date" compares the two strings.
RtIterate(name) ==
    /\ caller.name = name /\ caller.pc = "loop" /\ search.pc = "idle"
    /\ IF caller.i > Len(caller.outbound_dates) \/ caller.return_dates = <<>>
       THEN /\ caller' = [caller EXCEPT !.pc = "searched"]
            /\ UNCHANGED <<open_pages, search>>
       ELSE LET outbound_date == caller.outbound_dates[caller.i]
                return_date   == caller.return_dates[caller.j]
            IN  IF StrGreater(return_date, outbound_date)
                THEN /\ Called("search_roundtrip", <<outbound_date, return_date>>)
                     /\ caller' = [caller EXCEPT !.pc = "waiting"]
                ELSE /\ caller' = Advance(caller)
                     /\ UNCHANGED <<open_pages, search>>
    /\ UNCHANGED browser
    /\ UNCHANGED Elsewhere

\* "rt1_roundtrips.extend(roundtrips)"; an exception of search_roundtrip
\* leaves the driver.
RtCollect(name) ==
    /\ caller.name = name /\ caller.pc = "waiting"
    /\ search.pc \in {"returned", "raised"}
    /\ caller' =
           IF search.pc = "raised"
           THEN [caller EXCEPT !.pc = "raised", !.error = search.error]
           ELSE [Advance(caller) EXCEPT !.pc = "loop",
                                        !.roundtrips = @ \o search.value,
                                        !.searched = Append(@, search)]
    /\ search' = NoSearch
    /\ UNCHANGED <<browser, open_pages>>
    /\ UNCHANGED Elsewhere

\* src/trip_finder_roundtrip.py main: the date options are split at commas.
LegacyRtMainRetrieve ==
    /\ caller.pc = "idle" /\ search.pc = "idle" /\ browser = "launched"
    /\ \E o \in RtOptions, r \in RtOptions :
           caller' = [NoCaller EXCEPT !.name = "rt_main", !.pc = "loop",
                                      !.args = <<o, r>>,
                                      !.outbound_dates = legacy_date_list(o),
                                      !.return_dates = legacy_date_list(r),
                                      !.i = 1, !.j = 1]
    /\ UNCHANGED <<browser, open_pages, search>>
    /\ UNCHANGED Elsewhere

LegacyRtMainIterate == RtIterate("rt_main")

LegacyRtMainCollect == RtCollect("rt_main")

\* src/trip_finder/trip_finder_roundtrip.py run_search: the date options go
\* through parse_date_range.
RtRunSearchRetrieve ==
    /\ caller.pc = "idle" /\ search.pc = "idle" /\ browser = "launched"
    /\ \E o \in RtOptions, r \in RtOptions :
           LET outs == parse_date_range(o)
               rets == parse_date_range(r)
           IN  caller' =
                   IF outs.raised # "none" \/ rets.raised # "none"
                   THEN [NoCaller EXCEPT !.name = "rt_run_search", !.pc = "raised",
                                         !.args = <<o, r>>,
                                         !.error = IF outs.raised # "none"
                                                   THEN outs.raised ELSE rets.raised]
                   ELSE [NoCaller EXCEPT !.name = "rt_run_search", !.pc = "loop",
                                         !.args = <<o, r>>,
                                         !.outbound_dates = outs.value,
                                         !.return_dates = rets.value,
                                         !.i = 1, !.j = 1]
    /\ UNCHANGED <<browser, open_pages, search>>
    /\ UNCHANGED Elsewhere

RtRunSearchIterate == RtIterate("rt_run_search")

RtRunSearchCollect == RtCollect("rt_run_search")

ScraperNext ==
    \/ Enter
    \/ Exit
    \/ SearchFlights
    \/ SearchRoundtrip
    \/ Navigate
    \/ Extract
    \/ SearchDone
    \/ SearchDateRange
    \/ SearchDateRangeIterate
    \/ SearchDateRangeCollect
    \/ LegacyRtMainRetrieve
    \/ LegacyRtMainIterate
    \/ LegacyRtMainCollect
    \/ RtRunSearchRetrieve
    \/ RtRunSearchIterate
    \/ RtRunSearchCollect

\* A scraper is constructed next to an optimizer with the default thresholds.
ScraperInit ==
    /\ min_stopover1_days = DefaultMinStopover1Days
    /\ min_stopover2_days = DefaultMinStopover2Days
    /\ pc = "idle"
    /\ NoCall
    /\ run = NoRun
    /\ NoRetrieval
    /\ history = <<>>

ScraperSpec == ScraperInit /\ [][ScraperNext]_vars


\* ------------------------------------------------- calls of pure functions
MaxParts == 2   \* comma-separated parts of one date option

\* The parts a date option is written from: a single date, padded or not, or
\* a range START:END.  The string handed to parse_date_range is their text.
DatePart(day, short) == [kind |-> "date", day |-> day, short |-> short]

RangePart(start, end) == [kind |-> "range", start |-> start, end |-> end]

PartText(p) ==
    IF p.kind = "date" THEN (IF p.short THEN ShortText(p.day) ELSE Text(p.day))
    ELSE Text(p.start) \o <<Colon>> \o Text(p.end)

ParseDays == { <<2026, 2, 27>>, <<2026, 2, 28>>, <<2026, 3, 1>>, <<9999, 12, 30>>, MaxDate }

\* Ranges of at most MaxSpan days, and ranges whose end is before their start.
Parts ==
    { DatePart(d, FALSE) : d \in ParseDays } \cup { DatePart(<<2026, 3, 1>>, TRUE) } \cup
    { RangePart(ab[1], ab[2]) : ab \in { p \in ParseDays \X ParseDays :
                                             strptime(p[2]) - strptime(p[1]) < MaxSpan } }

RECURSIVE Join(_, _)
Join(texts, sep) ==
    IF Len(texts) = 1 THEN texts[1]
    ELSE texts[1] \o sep \o Join(Tail(texts), sep)

Separators == { <<Comma>>, <<Comma, Space>> }

\* One call and how it ended; given: what the arguments were made from.
CallRecord(fn, m1, m2, args, given, r) ==
    [fn |-> fn, m1 |-> m1, m2 |-> m2, args |-> args, given |-> given,
     value |-> r.value, raised |-> r.raised]

Returned(v) == [value |-> v, raised |-> "none"]

Raised(e) == [value |-> None, raised |-> e]

\* The call fn(*args) on an optimizer with the thresholds m1 and m2.
Apply(fn, m1, m2, args) ==
    CASE fn = "parse_date_range" -> parse_date_range(args[1])
      [] fn = "legacy_date_list" -> Returned(legacy_date_list(args[1]))
      [] fn = "legacy_validate_dates" ->
            IF legacy_validate_dates_raises(args[1], args[2], args[3], args[4])
            THEN Raised("ValueError")
            ELSE Returned(legacy_validate_dates(m1, m2, args[1], args[2], args[3], args[4]))
      [] fn = "validate_dates" ->
            IF validate_dates_raises(args[1], args[2], args[3], args[4])
            THEN Raised("ValueError")
            ELSE Returned(validate_dates(m1, m2, args[1], args[2], args[3], args[4]))
      [] fn = "legacy_rt_validate_dates" ->
            IF legacy_rt_validate_dates_raises(args[1], args[2])
            THEN Raised("ValueError")
            ELSE Returned(legacy_rt_validate_dates(m1, m2, args[1], args[2]))
      [] fn = "rt_validate_dates" ->
            IF rt_validate_dates_raises(args[1], args[2])
            THEN Raised("ValueError")
            ELSE Returned(rt_validate_dates(m1, m2, args[1], args[2]))
      [] fn = "legacy_find_best_combinations" ->
            IF legacy_find_raises(args[1], args[2], args[3], args[4])
            THEN Raised("ValueError")
            ELSE Returned(legacy_find_best_combinations(m1, m2, args[1], args[2], args[3],
                                                        args[4], args[5]))
      [] fn = "find_best_combinations" ->
            IF find_raises(args[1], args[2], args[3], args[4])
            THEN Raised("ValueError")
            ELSE Returned(find_best_combinations(m1, m2, args[1], args[2], args[3],
                                                 args[4], args[5]))
      [] fn = "legacy_rt_find_best_combinations" ->
            IF legacy_rt_find_raises(args[1], args[2])
            THEN Raised("ValueError")
            ELSE Returned(legacy_rt_find_best_combinations(m1, m2, args[1], args[2], args[3]))
      [] fn = "rt_find_best_combinations" ->
            IF rt_find_raises(args[1], args[2])
            THEN Raised("ValueError")
            ELSE Returned(rt_find_best_combinations(m1, m2, args[1], args[2], args[3]))

\* What a call of a pure function leaves alone.
BesidesHistory ==
    <<pc, op, seg_dates, rt_pair, segs, rts, top_n, valid, valid_combos, raised,
      lists_after, run, browser, open_pages, search, caller>>

\* A call on the optimizer at hand.
Call(fn, args, given) ==
    /\ history' = Append(history, CallRecord(fn, min_stopover1_days, min_stopover2_days,
                             args, given,
                             Apply(fn, min_stopover1_days, min_stopover2_days, args)))
    /\ UNCHANGED <<config, BesidesHistory>>

ValidateFns ==
    {"legacy_validate_dates", "validate_dates", "legacy_rt_validate_dates",
     "rt_validate_dates"}

SegFindFns == {"legacy_find_best_combinations", "find_best_combinations"}

RtFindFns == {"legacy_rt_find_best_combinations", "rt_find_best_combinations"}

FindFns == SegFindFns \cup RtFindFns

\* The candidate lists and top_n of a search call.
ListsOf(call) == SubSeq(call.args, 1, Len(call.args) - 1)

TopNOf(call) == call.args[Len(call.args)]

CallParseDateRange ==
    /\ history = <<>>
    /\ \E k \in 1..MaxParts : \E parts \in [1..k -> Parts], sep \in Separators :
           Call("parse_date_range",
                <<Join([i \in 1..k |-> PartText(parts[i])], sep)>>, parts)

\* The round trips of a date quadruple: rt1 = (d1, d4), rt2 = (d2, d3).
AsRoundTrips(d) ==
    << [outbound_date |-> d[1], return_date |-> d[4], total_price |-> 1000],
       [outbound_date |-> d[2], return_date |-> d[3], total_price |-> 1000] >>

\* Days around the month boundary, enough of them for gaps below, at and above
\* every threshold of Thresholds.
NearDates == { DateOfDay(k) : k \in 2..(MaxThreshold + 4) }

\* Four dates that parse, or three of them and one that does not.
FourDates ==
    (NearDates \X NearDates \X NearDates \X NearDates) \cup
    { [[i \in 1..4 |-> DateOfDay(i + 1)] EXCEPT ![j] = BadDateStr] : j \in 1..4 }

\* The legacy round-trip driver splits the same option at the commas only.
CallLegacyDateList ==
    /\ history = <<>>
    /\ \E k \in 1..MaxParts : \E parts \in [1..k -> Parts], sep \in Separators :
           Call("legacy_date_list",
                <<Join([i \in 1..k |-> PartText(parts[i])], sep)>>, parts)

ParseNext ==
    \/ CallParseDateRange
    \/ CallLegacyDateList

\* One date option of the command line, read by either round-trip driver.
ParseSpec == ScraperInit /\ [][ParseNext]_vars

CallLegacyValidateDates ==
    /\ history = <<>>
    /\ \E d \in FourDates : Call("legacy_validate_dates", d, d)

CallValidateDates ==
    /\ history = <<>>
    /\ \E d \in FourDates \cup { <<d[1], d[2], d[3], None>> : d \in FourDates }
                         \cup { <<d[1], d[2], None, None>> : d \in FourDates } :
           Call("validate_dates", d, d)

CallRtValidateDates ==
    /\ history = <<>>
    /\ \E d \in FourDates :
           \/ Call("rt_validate_dates", AsRoundTrips(d), d)
           \/ Call("rt_validate_dates", <<AsRoundTrips(d)[1], None>>, d)

\* top_n of a search: the usual values, and the size of the cross product.
TopNsFor(lists) == TopNs \cup { Len(product(lists)) }

\* The lists a search takes its cross product of.
Combined(fn, lists) ==
    CASE fn = "find_best_combinations" ->
            IF lists[3] = <<>> THEN <<lists[1], lists[2]>>
            ELSE <<lists[1], lists[2], lists[3]>>
      [] fn = "rt_find_best_combinations" ->
            IF lists[2] = <<>> THEN <<lists[1]>> ELSE lists
      [] OTHER -> lists

\* Thresholds an optimizer can be constructed with after another one: up to
\* one day above Thresholds.
TighterThresholds == 0..(MaxThreshold + 1)

\* The seg4 lists of a search: retrieved flights, or one whose date is malformed.
Seg4Lists == Retrieved(SegFound(4)) \cup { <<MalformedFlight>> }

\* The round-trip lists of a search: what was found in order, or one candidate.
RtLists(i) == Retrieved(RtFound(i)) \cup { <<rt>> : rt \in RtPool(i) }

CallLegacyFindBestCombinations ==
    /\ history = <<>>
    /\ \E seg1 \in Retrieved(SegFound(1)), seg2 \in Retrieved(SegFound(2)),
          seg3 \in Retrieved(SegFound(3)), seg4 \in Retrieved(SegFound(4)) :
       \E n \in TopNsFor(<<seg1, seg2, seg3, seg4>>) :
           Call("legacy_find_best_combinations", <<seg1, seg2, seg3, seg4, n>>,
                <<seg1, seg2, seg3, seg4>>)

CallFindBestCombinations ==
    /\ history = <<>>
    /\ \E seg1 \in Retrieved(SegFound(1)), seg2 \in Retrieved(SegFound(2)),
          seg3 \in Retrieved(SegFound(3)), seg4 \in Seg4Lists :
       \E n \in TopNsFor(Combined("find_best_combinations", <<seg1, seg2, seg3, seg4>>)) :
           Call("find_best_combinations", <<seg1, seg2, seg3, seg4, n>>,
                <<seg1, seg2, seg3, seg4>>)

CallLegacyRtFindBestCombinations ==
    /\ history = <<>>
    /\ \E rt1_flights \in RtLists(1), rt2_flights \in RtLists(2) :
       \E n \in TopNsFor(<<rt1_flights, rt2_flights>>) :
           Call("legacy_rt_find_best_combinations", <<rt1_flights, rt2_flights, n>>,
                <<rt1_flights, rt2_flights>>)

CallRtFindBestCombinations ==
    /\ history = <<>>
    /\ \E rt1_flights \in RtLists(1), rt2_flights \in RtLists(2) :
       \E n \in TopNsFor(Combined("rt_find_best_combinations",
                                  <<rt1_flights, rt2_flights>>)) :
           Call("rt_find_best_combinations", <<rt1_flights, rt2_flights, n>>,
                <<rt1_flights, rt2_flights>>)

\* After a 4-leg validate_dates call, the round-trip validate_dates of the
\* package on the same four dates.
CallRtValidateDatesOnSameDates ==
    /\ Len(history) = 1 /\ history[1].fn = "legacy_validate_dates"
    /\ Call("rt_validate_dates", AsRoundTrips(history[1].args), history[1].args)

\* After a 4-leg validate_dates call, the legacy round-trip validate_dates on
\* the same four dates.
CallLegacyRtValidateDatesOnSameDates ==
    /\ Len(history) = 1 /\ history[1].fn = "legacy_validate_dates"
    /\ Call("legacy_rt_validate_dates", AsRoundTrips(history[1].args), history[1].args)

\* The package search again with another seg4 list.
CallFindWithOtherSeg4 ==
    /\ Len(history) = 1 /\ history[1].fn = "find_best_combinations"
    /\ \E seg4 \in Seg4Lists :
           LET a == history[1].args
           IN  Call("find_best_combinations", <<a[1], a[2], a[3], seg4, a[5]>>,
                    <<a[1], a[2], a[3], seg4>>)

\* The same search again with top_n one larger.
CallFindWithNextTopN ==
    /\ Len(history) = 1 /\ history[1].fn \in FindFns
    /\ TopNOf(history[1]) >= 0
    /\ Call(history[1].fn, ListsOf(history[1]) \o <<TopNOf(history[1]) + 1>>,
            history[1].given)

\* The same call on an optimizer constructed with thresholds that are not smaller.
CallOnTighterOptimizer ==
    /\ Len(history) = 1 /\ history[1].fn \in ValidateFns \cup FindFns
    /\ \E a \in TighterThresholds, b \in TighterThresholds :
           /\ a >= min_stopover1_days /\ b >= min_stopover2_days
           /\ <<a, b>> # <<min_stopover1_days, min_stopover2_days>>
           /\ min_stopover1_days' = a
           /\ min_stopover2_days' = b
           /\ history' = Append(history, CallRecord(history[1].fn, a, b, history[1].args,
                                    history[1].given,
                                    Apply(history[1].fn, a, b, history[1].args)))
    /\ UNCHANGED BesidesHistory

\* The orders a list can be given in.
Orders(list) ==
    { [i \in 1..Len(list) |-> list[p[i]]] :
        p \in { q \in [1..Len(list) -> 1..Len(list)] :
                    \A i, j \in 1..Len(list) : i # j => q[i] # q[j] } }

\* The same search again with the elements of its lists in another order.
CallFindOnReorderedLists ==
    /\ Len(history) = 1 /\ history[1].fn \in FindFns
    /\ LET lists == ListsOf(history[1])
       IN  \E reordered \in IF Len(lists) = 2
                             THEN Orders(lists[1]) \X Orders(lists[2])
                             ELSE Orders(lists[1]) \X Orders(lists[2])
                                  \X Orders(lists[3]) \X Orders(lists[4]) :
               /\ reordered # lists
               /\ Call(history[1].fn, reordered \o <<TopNOf(history[1])>>, history[1].given)

CallsNext ==
    \/ CallLegacyValidateDates
    \/ CallValidateDates
    \/ CallRtValidateDates
    \/ CallLegacyFindBestCombinations
    \/ CallFindBestCombinations
    \/ CallLegacyRtFindBestCombinations
    \/ CallRtFindBestCombinations
    \/ CallRtValidateDatesOnSameDates
    \/ CallLegacyRtValidateDatesOnSameDates
    \/ CallFindWithOtherSeg4
    \/ CallFindWithNextTopN
    \/ CallOnTighterOptimizer
    \/ CallFindOnReorderedLists

\* One or two calls of the pure functions, with related arguments.
CallsSpec == Init /\ [][CallsNext]_vars

\* ------------------------------------------------------------------- claims
\* Calendar order of two date strings, read off the year, month and day fields.
Before(a, b) ==
    \/ a[1] < b[1]
    \/ a[1] = b[1] /\ a[2] < b[2]
    \/ a[1] = b[1] /\ a[2] = b[2] /\ a[3] < b[3]

StrictlyIncreasing(ds) == \A i \in 1..(Len(ds) - 1) : Before(ds[i], ds[i + 1])

\* The dates a validate_dates call supplies (None marks an omitted date).
Supplied(d) == SelectSeq(d, LAMBDA x : x # None)

Gap(a, b) == days(strptime(b), strptime(a))

SegValidateReturned ==
    pc = "returned" /\ op \in {"validate_dates", "legacy_validate_dates"}

RtValidateReturned ==
    pc = "returned" /\ op \in {"rt_validate_dates", "legacy_rt_validate_dates"}

\* C1: segment-chain validate_dates returns False whenever the 2, 3 or 4
\* supplied dates are not strictly increasing, for every threshold pair; a
\* fourth date that is not strictly after the third is rejected.
C1_NotIncreasingRejected ==
    (SegValidateReturned /\ ~StrictlyIncreasing(Supplied(seg_dates))) => (valid = FALSE)

\* C2: segment-chain validate_dates returns True exactly when the supplied
\* dates are strictly increasing, (d2 - d1).days >= min_stopover1_days and, if a
\* third date is supplied, (d3 - d2).days >= min_stopover2_days.
C2_ValidExactly ==
    SegValidateReturned =>
        (valid = (/\ StrictlyIncreasing(Supplied(seg_dates))
                  /\ Gap(seg_dates[1], seg_dates[2]) >= min_stopover1_days
                  /\ (seg_dates[3] # None =>
                         Gap(seg_dates[2], seg_dates[3]) >= min_stopover2_days)))

\* C3: round-trip validate_dates(rt1, rt2) with rt2 present returns True if and
\* only if rt1.outbound_date < rt2.outbound_date < rt2.return_date <
\* rt1.return_date, (rt2.outbound_date - rt1.outbound_date).days >=
\* min_stopover1_days and (rt2.return_date - rt2.outbound_date).days >=
\* min_stopover2_days.
C3_PairValidIff ==
    (RtValidateReturned /\ rt_pair[2] # None) =>
        LET rt1 == rt_pair[1]
            rt2 == rt_pair[2]
        IN  valid = (/\ Before(rt1.outbound_date, rt2.outbound_date)
                     /\ Before(rt2.outbound_date, rt2.return_date)
                     /\ Before(rt2.return_date, rt1.return_date)
                     /\ Gap(rt1.outbound_date, rt2.outbound_date) >= min_stopover1_days
                     /\ Gap(rt2.outbound_date, rt2.return_date) >= min_stopover2_days)

\* A two-pair call accepted with both stays exactly at a threshold of 1 day.
C3_Witness ==
    /\ pc = "returned" /\ op = "rt_validate_dates" /\ rt_pair[2] # None
    /\ valid = TRUE
    /\ min_stopover1_days = 1 /\ min_stopover2_days = 1
    /\ Gap(rt_pair[1].outbound_date, rt_pair[2].outbound_date) = 1
    /\ Gap(rt_pair[2].outbound_date, rt_pair[2].return_date) = 1

\* C4: round-trip validate_dates(rt1, None) returns True if and only if
\* rt1.outbound_date < rt1.return_date, whatever the two thresholds are.
C4_SingleValidIff ==
    (pc = "returned" /\ op = "rt_validate_dates" /\ rt_pair[2] = None) =>
        (valid = Before(rt_pair[1].outbound_date, rt_pair[1].return_date))

\* A single round trip with a 1-day stay accepted under the default thresholds.
C4_Witness ==
    /\ pc = "returned" /\ op = "rt_validate_dates" /\ rt_pair[2] = None
    /\ valid = TRUE
    /\ min_stopover1_days = DefaultMinStopover1Days
    /\ min_stopover2_days = DefaultMinStopover2Days
    /\ Gap(rt_pair[1].outbound_date, rt_pair[1].return_date) = 1

\* ----------------------------------------------------- claims on the search
SegFindOps == {"find_best_combinations", "legacy_find_best_combinations"}

RtFindOps == {"rt_find_best_combinations", "legacy_rt_find_best_combinations"}

\* A search that returned a list.
FindReturned == pc = "returned" /\ op \in (SegFindOps \cup RtFindOps) /\ raised = "none"

\* A search that ended in an exception.
FindRaised == pc = "returned" /\ op \in (SegFindOps \cup RtFindOps) /\ raised # "none"

\* total_price is the last component of a combination.
Total(c) == c[Len(c)]

\* The stay rules of the design: strictly increasing leg dates, first gap at
\* least min_stopover1_days, second gap (if any) at least min_stopover2_days.
SegDatesOk(ds) ==
    /\ StrictlyIncreasing(ds)
    /\ Gap(ds[1], ds[2]) >= min_stopover1_days
    /\ (Len(ds) >= 3 => Gap(ds[2], ds[3]) >= min_stopover2_days)

\* The round-trip stay rules: a lone round trip leaves before it returns; two
\* round trips nest, with both stays at least the thresholds.
RtDatesOk(rt1, rt2) ==
    IF rt2 = None
    THEN Before(rt1.outbound_date, rt1.return_date)
    ELSE /\ Before(rt1.outbound_date, rt2.outbound_date)
         /\ Before(rt2.outbound_date, rt2.return_date)
         /\ Before(rt2.return_date, rt1.return_date)
         /\ Gap(rt1.outbound_date, rt2.outbound_date) >= min_stopover1_days
         /\ Gap(rt2.outbound_date, rt2.return_date) >= min_stopover2_days

\* The legs of a segment-chain combination, without the None padding.
Legs(c) == SelectSeq(SubSeq(c, 1, 4), LAMBDA f : f # None)

LegDates(fs) == [i \in 1..Len(fs) |-> fs[i].departure_date]

\* The number of leg (pair) lists a call supplies.  The 4-leg and two-pair
\* optimizers always take four (two); the package optimizers take trailing empty
\* lists as "not supplied", with at least two legs (one pair).
NumSegLists ==
    IF op = "legacy_find_best_combinations" \/ segs[4] # <<>> THEN 4
    ELSE IF segs[3] # <<>> THEN 3 ELSE 2

NumRtLists ==
    IF op = "legacy_rt_find_best_combinations" \/ rts[2] # <<>> THEN 2 ELSE 1

\* Every tuple with one candidate from each supplied list, as the combination
\* the search is to emit for it: the records, None padding, the price sum.
RECURSIVE SumPrice(_)
SumPrice(fs) == IF fs = <<>> THEN 0 ELSE fs[1].price + SumPrice(Tail(fs))

SegCombo(t) ==
    [i \in 1..5 |-> IF i = 5 THEN SumPrice(t) ELSE IF i <= Len(t) THEN t[i] ELSE None]

RtCombo(t) ==
    IF Len(t) = 1 THEN <<t[1], None, t[1].total_price>>
    ELSE <<t[1], t[2], t[1].total_price + t[2].total_price>>

ValidSegCombos ==
    { SegCombo(t) : t \in { u \in Range(product(SubSeq(segs, 1, NumSegLists))) :
                              SegDatesOk(LegDates(u)) } }

ValidRtCombos ==
    { RtCombo(t) : t \in { u \in Range(product(SubSeq(rts, 1, NumRtLists))) :
                             RtDatesOk(u[1], IF Len(u) = 2 THEN u[2] ELSE None) } }

ValidCombos == IF op \in SegFindOps THEN ValidSegCombos ELSE ValidRtCombos

\* C5: the returned list is the N cheapest valid itineraries (N = top_n >= 0):
\* every tuple of one candidate per supplied list that passes the stay rules is
\* either returned, or the list holds top_n entries none dearer than it.
C5_NCheapest ==
    (FindReturned /\ top_n >= 0) =>
        \A c \in ValidCombos :
            \/ c \in Range(valid_combos)
            \/ /\ Len(valid_combos) = top_n
               /\ \A i \in 1..Len(valid_combos) : Total(valid_combos[i]) <= Total(c)

\* C6: every returned combination has strictly increasing dates across its
\* legs (pairs) in itinerary order, and each stopover gap is at least the
\* threshold configured for it.
C6_ReturnedCombosOrdered ==
    FindReturned =>
        \A i \in 1..Len(valid_combos) :
            LET c == valid_combos[i]
            IN  IF op \in SegFindOps THEN SegDatesOk(LegDates(Legs(c)))
                ELSE RtDatesOk(c[1], c[2])

\* C7: total_price of every result is the sum of the prices of the records
\* picked, one from each supplied list; four single-candidate lists priced 500,
\* 100, 120, 480 with valid dates give exactly one result, of total 1200.
C7_TotalIsSumOfPicked ==
    (pc = "returned" /\ op \in SegFindOps) =>
        /\ \A i \in 1..Len(valid_combos) :
               LET c == valid_combos[i]
               IN  /\ \A k \in 1..NumSegLists : c[k] \in Range(segs[k])
                   /\ Total(c) = SumPrice(SubSeq(c, 1, NumSegLists))
        /\ ( /\ segs = << <<Flight(1, 500)>>, <<Flight(2, 100)>>,
                          <<Flight(3, 120)>>, <<Flight(5, 480)>> >>
             /\ min_stopover1_days <= 1 /\ min_stopover2_days <= 1 /\ top_n >= 1 )
           => (Len(valid_combos) = 1 /\ Total(valid_combos[1]) = 1200)

\* C8: the search returns an empty list whenever a list supplied for a required
\* position is empty: a list of the 4-leg or two-pair optimizer, seg1, seg2 or
\* rt1 of the package optimizers, or a package list followed by a non-empty one.
C8_EmptyListEmptyResult ==
    FindReturned =>
        LET lists == IF op \in SegFindOps THEN SubSeq(segs, 1, NumSegLists)
                     ELSE SubSeq(rts, 1, NumRtLists)
        IN  (\E k \in 1..Len(lists) : lists[k] = <<>>) => (valid_combos = <<>>)

\* C9: with no rt2 candidates the package round-trip search returns only
\* singletons (rt1, None, rt1.total_price) with rt1.outbound_date < rt1.return_date.
C9_SingletonsLeaveBeforeReturn ==
    (pc = "returned" /\ op = "rt_find_best_combinations" /\ rts[2] = <<>>) =>
        \A i \in 1..Len(valid_combos) :
            /\ valid_combos[i][2] = None
            /\ valid_combos[i][3] = valid_combos[i][1].total_price
            /\ Before(valid_combos[i][1].outbound_date, valid_combos[i][1].return_date)

\* C10: every returned list is in non-decreasing total_price order.
C10_SortedByTotal ==
    FindReturned =>
        \A i \in 1..(Len(valid_combos) - 1) :
            Total(valid_combos[i]) <= Total(valid_combos[i + 1])

\* Two valid 2-leg combinations enumerated dearer-first and returned cheaper-first.
C10_Witness ==
    /\ pc = "returned" /\ op = "find_best_combinations"
    /\ segs = << <<Flight(1, 500), Flight(2, 450)>>, <<Flight(3, 150)>>, <<>>, <<>> >>
    /\ Len(valid_combos) = 2
    /\ Total(valid_combos[1]) = 600 /\ Total(valid_combos[2]) = 650

\* The lists a search walks, in argument order: the 4-leg and two-pair optimizers
\* walk all their lists, the package optimizers walk seg1, seg2 and a non-empty
\* seg3 (rt1 and a non-empty rt2).
WalkedLists ==
    IF op = "legacy_find_best_combinations" THEN segs
    ELSE IF op = "find_best_combinations"
         THEN SubSeq(segs, 1, IF segs[3] = <<>> THEN 2 ELSE 3)
    ELSE SubSeq(rts, 1, NumRtLists)

Longest(lists) ==
    IF lists = <<>> THEN 0
    ELSE CHOOSE n \in { Len(lists[i]) : i \in 1..Len(lists) } :
             \A i \in 1..Len(lists) : Len(lists[i]) <= n

\* One index per walked list.
IndexTuples ==
    { t \in [1..Len(WalkedLists) -> 1..Longest(WalkedLists)] :
        \A i \in 1..Len(WalkedLists) : t[i] <= Len(WalkedLists[i]) }

\* a comes before b when the first index varies slowest and the last fastest.
LexLess(a, b) ==
    \E k \in 1..Len(a) : a[k] < b[k] /\ \A j \in 1..(k - 1) : a[j] = b[j]

TupleAt(r) ==
    CHOOSE t \in IndexTuples : Cardinality({u \in IndexTuples : LexLess(u, t)}) = r - 1

ComboAt(t) ==
    LET picked == [i \in 1..Len(WalkedLists) |-> WalkedLists[i][t[i]]]
    IN  IF op \in SegFindOps THEN SegCombo(picked) ELSE RtCombo(picked)

\* The combinations of all index tuples, in enumeration order.
Enumerated == [r \in 1..Cardinality(IndexTuples) |-> ComboAt(TupleAt(r))]

\* C11: among returned combinations of equal total_price the relative order is
\* the enumeration order of the cross product (first list's index slowest, last
\* list's fastest): for every price, the returned entries at that price are, in
\* order, the first enumerated ones among the returned combinations at that
\* price.  The sort adds no other tie-break.
C11_TiesKeepEnumerationOrder ==
    FindReturned =>
        \A p \in { Total(c) : c \in Range(valid_combos) } :
            LET got  == SelectSeq(valid_combos, LAMBDA c : Total(c) = p)
                enum == SelectSeq(Enumerated,
                            LAMBDA c : Total(c) = p /\ c \in Range(valid_combos))
            IN  Len(got) <= Len(enum) /\ got = SubSeq(enum, 1, Len(got))

\* Two different itineraries of total 600, supplied dearest-first-leg first: the
\* one enumerated first is returned first although its first leg costs less.
C11_Witness ==
    /\ pc = "returned" /\ op = "find_best_combinations"
    /\ segs = << <<Flight(2, 450), Flight(1, 500)>>, <<Flight(3, 150), Flight(2, 100)>>,
                 <<>>, <<>> >>
    /\ Len(valid_combos) = 2
    /\ valid_combos[1] = <<Flight(2, 450), Flight(3, 150), None, None, 600>>
    /\ valid_combos[2] = <<Flight(1, 500), Flight(2, 100), None, None, 600>>

\* The combinations a search collects before it sorts: the enumerated ones that
\* pass its date check.  The package round-trip search with no rt2 candidates
\* checks nothing.
Collected ==
    SelectSeq(Enumerated,
        LAMBDA c : IF op \in SegFindOps THEN SegDatesOk(LegDates(Legs(c)))
                   ELSE IF op = "rt_find_best_combinations" /\ rts[2] = <<>> THEN TRUE
                   ELSE RtDatesOk(c[1], c[2]))

Max(a, b) == IF a >= b THEN a ELSE b

Min(a, b) == IF a <= b THEN a ELSE b

ValidTuples ==
    IF op \in SegFindOps
    THEN SelectSeq(product(SubSeq(segs, 1, NumSegLists)),
             LAMBDA u : SegDatesOk(LegDates(u)))
    ELSE SelectSeq(product(SubSeq(rts, 1, NumRtLists)),
             LAMBDA u : RtDatesOk(u[1], IF Len(u) = 2 THEN u[2] ELSE None))

\* C13: the returned list is never longer than min(top_n, number of valid
\* combinations), and with top_n at least the number of valid combinations the
\* whole valid set is returned.  Stated here for top_n >= 0; a negative top_n
\* exceeds the bound as well (C12).
C13_LengthBound ==
    (FindReturned /\ top_n >= 0) =>
        /\ Len(valid_combos) <= Min(top_n, Len(ValidTuples))
        /\ (top_n >= Len(ValidTuples) =>
               /\ Len(valid_combos) = Len(ValidTuples)
               /\ Range(valid_combos) = ValidCombos)

AllSuppliedNonEmpty ==
    IF op \in SegFindOps THEN \A i \in 1..NumSegLists : segs[i] # <<>>
    ELSE \A i \in 1..NumRtLists : rts[i] # <<>>

\* C14: when every candidate tuple fails the date/stay validation the search
\* returns an empty list, whatever the prices.
C14_AllInvalidEmpty ==
    (FindReturned /\ AllSuppliedNonEmpty /\ Len(ValidTuples) = 0) => valid_combos = <<>>

\* The argument objects of the last call, as they were passed.
ArgsPassed ==
    IF op \in SegFindOps THEN segs
    ELSE IF op \in RtFindOps THEN rts
    ELSE IF op \in {"validate_dates", "legacy_validate_dates"} THEN seg_dates
    ELSE rt_pair

\* C15: find_best_combinations and validate_dates leave their inputs unchanged:
\* when a call is over, every supplied list has the same length, elements and
\* element order as before, and every record and date string the same value.
C15_InputsUnchanged ==
    pc = "returned" => lists_after = ArgsPassed

\* A search that sorted two results while its first list is not in price order.
C15_Witness ==
    /\ FindReturned /\ op = "legacy_rt_find_best_combinations"
    /\ rts[1] = <<RoundTripFlight(1, 6, 1000), RoundTripFlight(2, 5, 950)>>
    /\ Len(valid_combos) = 2 /\ Total(valid_combos[1]) < Total(valid_combos[2])
    /\ lists_after = rts

SuppliedMalformed ==
    IF op \in SegFindOps
    THEN \E i \in 1..NumSegLists : \E j \in 1..Len(segs[i]) :
             ~IsDate(segs[i][j].departure_date)
    ELSE \E i \in 1..NumRtLists : \E j \in 1..Len(rts[i]) :
             ~IsDate(rts[i][j].outbound_date) \/ ~IsDate(rts[i][j].return_date)

\* C17: if all supplied candidate lists are non-empty and any candidate record
\* carries a malformed date string, find_best_combinations ends in the
\* propagated parse failure and returns no result, partial or otherwise.
C17_MalformedRaises ==
    (pc = "returned" /\ op \in (SegFindOps \cup RtFindOps)
        /\ AllSuppliedNonEmpty /\ SuppliedMalformed)
    => (raised = "ValueError" /\ valid_combos = <<>>)

\* The lists a call supplies, in argument order.
SuppliedLists ==
    IF op \in SegFindOps THEN SubSeq(segs, 1, NumSegLists) ELSE SubSeq(rts, 1, NumRtLists)

RECURSIVE ProductSize(_)
ProductSize(lists) ==
    IF lists = <<>> THEN 1 ELSE Len(Head(lists)) * ProductSize(Tail(lists))

\* C18: the optimizer neither fabricates nor de-duplicates: the i-th constituent
\* of every returned combination is an element of the i-th supplied list, and
\* with top_n at least the size of the cross product the number of results is
\* the number of index tuples (one index per list) whose dates validate, so a
\* record supplied twice yields two combinations.
C18_NoFabricationNoDedup ==
    FindReturned =>
        /\ \A c \in Range(valid_combos) : \A i \in 1..Len(SuppliedLists) :
               c[i] \in Range(SuppliedLists[i])
        /\ (top_n >= ProductSize(SuppliedLists) =>
               Len(valid_combos) = Len(ValidTuples))

\* A driver run that is over.
RunOver == run.pc \in {"returned", "raised", "done"}

\* C19: in the package segment-chain driver run_search, whenever
\* find_best_combinations returns at least one combination the run goes through
\* the display and the JSON building and reaches the write of the results file
\* without an exception.
C19_ResultsReachFile ==
    (run.driver = "run_search" /\ RunOver /\ run.called /\ valid_combos # <<>>)
    => (run.written /\ run.error = "none")

\* A list the driver requires is empty after retrieval: any of the four in
\* the 4-leg driver; seg1, seg2 or (with a second stopover) seg3 in the package
\* segment driver; rt1 or (with a second stopover) rt2 in the round-trip drivers.
RequiredListEmpty ==
    CASE run.driver = "legacy_main" -> \E i \in 1..4 : segs[i] = <<>>
      [] run.driver = "run_search" ->
             segs[1] = <<>> \/ segs[2] = <<>> \/ (run.stopover2 /\ segs[3] = <<>>)
      [] run.driver = "legacy_rt_main" -> rts[1] = <<>> \/ rts[2] = <<>>
      [] run.driver = "rt_run_search" ->
             rts[1] = <<>> \/ (run.stopover2 /\ rts[2] = <<>>)
      [] OTHER -> FALSE

\* C20: in every driver the search runs over fully populated lists or not at
\* all: if a required retrieved list is empty the driver returns before it calls
\* find_best_combinations and never writes the output file.
C20_EmptyListNoSearch ==
    RequiredListEmpty => (~run.called /\ ~run.written /\ run.pc \in {"searched", "returned"})

\* The package segment driver, second stopover given, with seg1 and seg2
\* candidates but none for seg3, has returned without a search.
C20_Witness ==
    /\ run.driver = "run_search" /\ run.pc = "returned" /\ run.stopover2
    /\ segs[1] # <<>> /\ segs[2] # <<>> /\ segs[3] = <<>>
    /\ ~run.called /\ ~run.written


\* --------------------------------------------------------------- retrieval
RtDrivers == {"rt_main", "rt_run_search"}

\* The retrieval loops of a round-trip driver are over and the list goes to
\* RoundTripOptimizer.find_best_combinations.
RtRetrieved == caller.name \in RtDrivers /\ caller.pc = "searched"

\* C21: every RoundTripFlight record a round-trip driver passes to the
\* optimizer has its outbound_date strictly before its return_date as calendar
\* dates, whatever date strings the user supplied that the scraper accepts.
C21_RecordsLeaveBeforeReturn ==
    RtRetrieved =>
        \A k \in 1..Len(caller.roundtrips) :
            OrdinalOf(caller.roundtrips[k].outbound_date)
                < OrdinalOf(caller.roundtrips[k].return_date)


\* A search_flights or search_roundtrip call is over.
SearchOver == search.pc \in {"returned", "raised"}

\* C22: every page search_flights or search_roundtrip opens is closed when the
\* call is over, however it ends; a failure of the navigation or of the
\* extraction makes the call return an empty list and raise nothing, so no page
\* is open between two searches.
C22_PagesClosed ==
    /\ search.pc \in {"idle", "returned", "raised"} => open_pages = 0
    /\ search.failed # "none" => search.pc = "returned" /\ search.value = <<>>

\* search_roundtrip has returned after its extraction failed.
C22_Witness ==
    /\ search.pc = "returned" /\ search.method = "search_roundtrip"
    /\ search.failed = "extraction" /\ search.page.cards # <<>>
    /\ open_pages = 0

\* search_date_range was called with two dates that parse, on a launched browser.
RangeCall ==
    /\ caller.name = "search_date_range" /\ browser = "launched"
    /\ Parses(caller.args[1]) /\ Parses(caller.args[2])

RangeOver == RangeCall /\ caller.pc \in {"returned", "raised"}

RECURSIVE Concat(_)
Concat(calls) == IF calls = <<>> THEN <<>> ELSE Head(calls).value \o Concat(Tail(calls))

\* One search_flights call per calendar date from the start date on, in
\* ascending order, and all_flights is what the calls returned, in that order.
OneSearchPerDate(n) ==
    /\ Len(caller.searched) = n
    /\ \A k \in 1..n :
           /\ caller.searched[k].method = "search_flights"
           /\ OrdinalOf(caller.searched[k].dates[1]) = OrdinalOf(caller.args[1]) + k - 1
    /\ caller.all_flights = Concat(caller.searched)

\* The number of calendar dates from the start date to the end date.
SpanDays == Max(0, OrdinalOf(caller.args[2]) - OrdinalOf(caller.args[1]) + 1)

ExtractedFlights ==
    /\ search.pc = "returned" /\ search.method = "search_flights"
    /\ search.failed = "none" /\ search.page # None

\* The flights of the page in parse order: the cards that can be read.
ParsedFlights ==
    LET read == SelectSeq(search.page.cards, LAMBDA c : ~c.raises)
    IN  [i \in 1..Len(read) |-> ScrapedFlight(read[i], search.dates[1])]

\* The positions of the priced flights that no earlier flight shares its key with.
FirstOfKey ==
    { i \in 1..Len(ParsedFlights) :
        /\ ParsedFlights[i].price > 0
        /\ \A j \in 1..(i - 1) : FlightKey(ParsedFlights[j]) # FlightKey(ParsedFlights[i]) }

\* The k-th smallest element of a set of positions.
Kth(S, k) == CHOOSE i \in S : Cardinality({ j \in S : j <= i }) = k

Contribution(p) ==
    IF p.kind = "date" THEN <<[text |-> PartText(p), ordinal |-> 0]>>
    ELSE LET first == strptime(p.start)
             last  == strptime(p.end)
         IN  [k \in 1..(IF first <= last THEN last - first + 1 ELSE 0) |->
                 [text |-> <<>>, ordinal |-> first + k - 1]]

RECURSIVE Contributions(_)
Contributions(parts) ==
    IF parts = <<>> THEN <<>> ELSE Contribution(Head(parts)) \o Contributions(Tail(parts))

\* A returned string is the contribution asked for: the part as it was written,
\* or the "YYYY-MM-DD" text of the day.
IsContribution(v, c) ==
    IF c.ordinal = 0 THEN v = c.text
    ELSE Len(v) = 10 /\ Parses(v) /\ OrdinalOf(v) = c.ordinal

ParseCall == history # <<>> /\ history[1].fn = "parse_date_range"

PartsInOrder(call) ==
    /\ call.raised = "none"
    /\ Len(call.value) = Len(Contributions(call.given))
    /\ \A k \in 1..Len(call.value) : IsContribution(call.value[k], Contributions(call.given)[k])

\* A range that is not empty and ends on the last day datetime can hold.
EndsAtMaxDate(p) ==
    p.kind = "range" /\ p.end = MaxDate /\ strptime(p.start) <= strptime(p.end)

SameDatesValidated ==
    /\ Len(history) = 2
    /\ history[1].fn = "legacy_validate_dates"
    /\ history[2].fn \in {"rt_validate_dates", "legacy_rt_validate_dates"}
    /\ history[2].m1 = history[1].m1 /\ history[2].m2 = history[1].m2
    /\ history[2].args = AsRoundTrips(history[1].args)

\* C26: the 4-leg validate_dates(d1, d2, d3, d4) and the round-trip
\* validate_dates(rt1 = (d1, d4), rt2 = (d2, d3)) of either round-trip module,
\* with the same thresholds, give the same answer (and raise on the same dates).
C26_SamePredicate ==
    SameDatesValidated =>
        /\ history[2].raised = history[1].raised
        /\ history[1].raised = "none" => history[2].value = history[1].value

\* Four dates both validators accept, with the first stay exactly at a positive
\* threshold.
C26_Witness ==
    /\ SameDatesValidated
    /\ history[2].fn = "rt_validate_dates"
    /\ history[1].raised = "none" /\ history[2].raised = "none"
    /\ history[1].value = TRUE /\ history[2].value = TRUE
    /\ history[1].m1 > 0
    /\ strptime(history[1].args[2]) - strptime(history[1].args[1]) = history[1].m1


\* Two package segment-chain searches that differ at most in their seg4 list.
OtherSeg4Searched ==
    /\ Len(history) = 2
    /\ history[1].fn = "find_best_combinations" /\ history[2].fn = "find_best_combinations"
    /\ history[2].m1 = history[1].m1 /\ history[2].m2 = history[1].m2
    /\ \A i \in {1, 2, 3, 5} : history[2].args[i] = history[1].args[i]

C27_WitnessTwoLegs ==
    /\ OtherSeg4Searched
    /\ history[1].args[3] = <<>>
    /\ history[1].args[4] # history[2].args[4]
    /\ history[1].raised = "none"
    /\ Len(history[1].value) >= 1


\* The same search twice, the second time with top_n one larger.
NextTopNSearched ==
    /\ Len(history) = 2
    /\ history[1].fn \in FindFns /\ history[2].fn = history[1].fn
    /\ history[2].m1 = history[1].m1 /\ history[2].m2 = history[1].m2
    /\ ListsOf(history[2]) = ListsOf(history[1])
    /\ TopNOf(history[1]) >= 0
    /\ TopNOf(history[2]) = TopNOf(history[1]) + 1

FirstEntries(list, k) == SubSeq(list, 1, IF k < Len(list) THEN k ELSE Len(list))

\* C28: for k >= 0 the result for top_n = k is the first k entries (all of
\* them, if fewer) of the result for top_n = k + 1.
C28_NestedPrefixes ==
    NextTopNSearched =>
        /\ history[2].raised = history[1].raised
        /\ history[1].raised = "none" =>
              history[1].value = FirstEntries(history[2].value, TopNOf(history[1]))

\* The cheapest itinerary alone, then the two cheapest, of the 4-leg search.
C28_Witness ==
    /\ NextTopNSearched
    /\ history[1].fn = "legacy_find_best_combinations"
    /\ history[1].raised = "none"
    /\ TopNOf(history[1]) = 1
    /\ Len(history[1].value) = 1 /\ Len(history[2].value) = 2

\* The same call twice, the second time on an optimizer whose thresholds are
\* not smaller.
TighterCalled ==
    /\ Len(history) = 2
    /\ history[2].fn = history[1].fn
    /\ history[2].args = history[1].args
    /\ history[2].m1 >= history[1].m1 /\ history[2].m2 >= history[1].m2

Untruncated(call) ==
    TopNOf(call) >= Len(product(Combined(call.fn, ListsOf(call))))

RECURSIVE IsSubList(_, _)
IsSubList(a, b) ==
    IF a = <<>> THEN TRUE
    ELSE IF b = <<>> THEN FALSE
    ELSE IF Head(a) = Head(b) THEN IsSubList(Tail(a), Tail(b))
    ELSE IsSubList(a, Tail(b))

\* C29: with thresholds that are not smaller, validate_dates accepts only
\* dates it accepted before, and a search with top_n at least the size of the
\* cross product returns a sub-list of what it returned before.
C29_TighterAdmitsNothingNew ==
    TighterCalled =>
        /\ history[2].raised = history[1].raised
        /\ (history[1].raised = "none" /\ history[1].fn \in ValidateFns) =>
              (history[2].value => history[1].value)
        /\ (history[1].raised = "none" /\ history[1].fn \in FindFns
            /\ Untruncated(history[1])) =>
              IsSubList(history[2].value, history[1].value)

\* A package segment-chain search that keeps some itineraries and loses others
\* when the thresholds grow.
C29_Witness ==
    /\ TighterCalled
    /\ history[1].fn = "find_best_combinations"
    /\ history[1].raised = "none"
    /\ Untruncated(history[1])
    /\ history[2].value # <<>>
    /\ Len(history[2].value) < Len(history[1].value)

\* Dates the package validator accepts before and rejects after.
C29_WitnessDates ==
    /\ TighterCalled
    /\ history[1].fn = "validate_dates"
    /\ history[1].raised = "none"
    /\ history[1].value = TRUE /\ history[2].value = FALSE

\* The same search twice, the second time with the elements of its lists in
\* another order.
ReorderedSearched ==
    /\ Len(history) = 2
    /\ history[1].fn \in FindFns /\ history[2].fn = history[1].fn
    /\ history[2].m1 = history[1].m1 /\ history[2].m2 = history[1].m2
    /\ TopNOf(history[2]) = TopNOf(history[1])
    /\ \A i \in 1..Len(ListsOf(history[1])) :
           ListsOf(history[2])[i] \in Orders(ListsOf(history[1])[i])
    /\ Untruncated(history[1])

Count(list, x) == Cardinality({ i \in 1..Len(list) : list[i] = x })

SameMultiset(a, b) ==
    /\ Len(a) = Len(b)
    /\ \A i \in 1..Len(a) : Count(a, a[i]) = Count(b, a[i])

TotalPrices(list) == [i \in 1..Len(list) |-> list[i][Len(list[i])]]

\* C30: with top_n at least the size of the cross product, another order of
\* the elements inside the input lists changes neither the multiset of returned
\* combinations nor the sequence of their total prices.
C30_OrderOfInputsIrrelevant ==
    ReorderedSearched =>
        /\ history[2].raised = history[1].raised
        /\ history[1].raised = "none" =>
              /\ SameMultiset(history[1].value, history[2].value)
              /\ TotalPrices(history[1].value) = TotalPrices(history[2].value)

\* Reordered lists whose results differ, in the order of two itineraries of
\* equal price only.
C30_Witness ==
    /\ ReorderedSearched
    /\ history[1].raised = "none"
    /\ history[2].value # history[1].value
    /\ Len(history[1].value) >= 2

====
